---- MODULE Spec2Model ----
(***************************************************************************)
(* jsonrpc-debugger: the exchange store (App::add_message), the request    *)
(* handler of the proxy (handle_proxy_request / forward_request) and the   *)
(* controller loop (run_app) with its pending queue and decision dispatch. *)
(***************************************************************************)
EXTENDS Integers, Sequences, FiniteSets, TLC

VARIABLES
    exchanges,          \* App.exchanges: Vec<JsonRpcExchange>
    applied,            \* history: the messages add_message was called with, in order (as passed in)
    msgChan,            \* the message ingress channel (mpsc::unbounded, FIFO)
    pendChan,           \* the pending ingress channel (mpsc::unbounded, FIFO)
    pending_requests,   \* App.pending_requests: Vec<PendingRequest>
    selected_pending,   \* App.selected_pending
    app_mode,           \* App.app_mode
    shared_mode,        \* ProxyState.app_mode: Arc<Mutex<AppMode>>, the shared slot
    mode_lock,          \* holder of the mutex around the shared slot (0: free)
    has_state,          \* ProxyServer.proxy_state is Some
    ctl,                \* position of run_app inside one loop iteration
    hs,                 \* one record per handler task (handle_proxy_request)
    sink,               \* the oneshot decision channel of each handler
    upstream,           \* history: the requests the target received, per handler task
    dispatched,         \* history: decisions sent per pending entry, in order
    selected_exchange,  \* App.selected_exchange
    input_mode,         \* App.input_mode
    input_buffer,       \* App.input_buffer
    filter_text,        \* App.filter_text
    target_url,         \* App.proxy_config.target_url
    is_running,         \* App.is_running
    proxy_server,       \* run_app's proxy_server: Option<JoinHandle<()>>, a task number
    tasks               \* the server tasks spawned so far, each running, aborted or finished

vars == <<exchanges, applied, msgChan, pendChan, pending_requests,
          selected_pending, app_mode, shared_mode, mode_lock, has_state, ctl,
          hs, sink, upstream, dispatched, selected_exchange, input_mode,
          input_buffer, filter_text, target_url, is_running, proxy_server, tasks>>

inputVars == <<input_mode, input_buffer, filter_text>>
serverVars == <<target_url, is_running, proxy_server, tasks>>

(***************************************************************************)
(* Bounds                                                                  *)
(***************************************************************************)
MaxApplied == 4         \* messages applied directly to the store (StoreSpec)
NumHandlers == 2        \* concurrent handler tasks
MaxQueue == 3           \* requests held in the pending queue (QueueSpec)
MaxInput == 3           \* characters typed into the input buffer
MaxTasks == 3           \* server tasks spawned (ServerSpec)

Handlers == 1..NumHandlers

(***************************************************************************)
(* Option<T>: None is the empty sequence, Some(x) the one-element sequence *)
(***************************************************************************)
None == <<>>
Some(x) == <<x>>
IsSome(o) == Len(o) = 1
IsNone(o) == Len(o) = 0
Unwrap(o) == o[1]

(***************************************************************************)
(* serde_json::Value: a tag and a payload. A string is its sequence of     *)
(* character codes, so the number 1 and the string "1" (<<49>>) differ.    *)
(***************************************************************************)
JNull == [t |-> "null", v |-> 0]
JNum(n) == [t |-> "num", v |-> n]
JStr(s) == [t |-> "str", v |-> s]
JObj(r) == [t |-> "obj", v |-> r]

\* An error object {code, message, data?}
ErrObj(code, message, data) == JObj([code |-> code, message |-> message, data |-> data])

\* char::is_ascii and char::is_control on character codes
is_ascii(c) == c < 128
is_control(c) == c < 32 \/ (c >= 127 /\ c < 160)

SanitizeLimit == 500

\* app.rs 177-179: .chars().filter(..)
FilterChars(s) ==
    SelectSeq(s, LAMBDA c : is_ascii(c) /\ (~is_control(c) \/ c = 10 \/ c = 9))

\* mutant of Take: nothing is cut off
TakeAll(s, n) == s

Take(s, n) == IF Len(s) <= n THEN s ELSE SubSeq(s, 1, n)

\* app.rs 174-185: the sanitisation of error.data when it is a string
Sanitize(m) ==
    IF IsSome(m.error)
       /\ Unwrap(m.error).t = "obj"
       /\ IsSome(Unwrap(m.error).v.data)
       /\ Unwrap(Unwrap(m.error).v.data).t = "str"
    THEN LET e == Unwrap(m.error)
             d == Unwrap(e.v.data).v
         IN [m EXCEPT !.error =
                Some(JObj([e.v EXCEPT !.data = Some(JStr(Take(FilterChars(d), SanitizeLimit)))]))]
    ELSE m

(***************************************************************************)
(* App::add_message on the exchange sequence                               *)
(***************************************************************************)
\* mutant of RequestExchange: the method is not copied
RequestExchangeUnnamed(m) ==
    [id |-> m.id, method |-> None, request |-> Some(m), response |-> None,
     timestamp |-> m.timestamp, transport |-> m.transport]

\* app.rs 189-196
RequestExchange(m) ==
    [id |-> m.id, method |-> m.method, request |-> Some(m), response |-> None,
     timestamp |-> m.timestamp, transport |-> m.transport]

ResponseOnlyExchange(m) ==
    [id |-> m.id, method |-> None, request |-> None, response |-> Some(m),
     timestamp |-> m.timestamp, transport |-> m.transport]

\* mutants of Matches: the response half is not looked at; the id is not looked at
MatchesFulfilled(e, m) == e.id = m.id
MatchesAnyId(e, m) == IsNone(e.response)

\* e.id == message.id && e.response.is_none()
Matches(e, m) == e.id = m.id /\ IsNone(e.response)

\* mutant of FindMatch: the scan runs front to back (.rev() left out)
FindFirstMatch(ex, m) ==
    LET cand == {i \in 1..Len(ex) : ex[i].id = m.id /\ IsNone(ex[i].response)}
    IN IF cand = {} THEN 0 ELSE CHOOSE i \in cand : \A j \in cand : i <= j

\* .iter_mut().rev().find(..): the highest index that matches, 0 when none does
FindMatch(ex, m) ==
    LET cand == {i \in 1..Len(ex) : Matches(ex[i], m)}
    IN IF cand = {} THEN 0 ELSE CHOOSE i \in cand : \A j \in cand : j <= i

\* mutant of add_message: a request whose id is already in the store takes the
\* place of that exchange instead of being appended
add_message_dedup(ex, msg) ==
    LET m == Sanitize(msg)
        same == {i \in 1..Len(ex) : ex[i].id = m.id}
    IN IF m.direction = "Request"
       THEN IF same = {} THEN Append(ex, RequestExchange(m))
            ELSE [ex EXCEPT ![CHOOSE i \in same : \A j \in same : j <= i] = RequestExchange(m)]
       ELSE LET i == FindMatch(ex, m) IN
            IF i # 0 THEN [ex EXCEPT ![i].response = Some(m)]
            ELSE Append(ex, ResponseOnlyExchange(m))

\* mutant of add_message: the response restamps the exchange it fulfils
add_message_touch(ex, msg) ==
    LET m == Sanitize(msg) IN
    IF m.direction = "Request"
    THEN Append(ex, RequestExchange(m))
    ELSE LET i == FindMatch(ex, m) IN
         IF i # 0 THEN [ex EXCEPT ![i].response = Some(m), ![i].timestamp = m.timestamp]
         ELSE Append(ex, ResponseOnlyExchange(m))

\* app.rs 172-223
add_message(ex, msg) ==
    LET m == Sanitize(msg) IN
    IF m.direction = "Request"
    THEN Append(ex, RequestExchange(m))
    ELSE LET i == FindMatch(ex, m) IN
         IF i # 0 THEN [ex EXCEPT ![i].response = Some(m)]
         ELSE Append(ex, ResponseOnlyExchange(m))

\* mutant of add_messages: the channel is emptied from its back
RECURSIVE add_messages_lifo(_, _)
add_messages_lifo(ex, ms) ==
    IF ms = <<>> THEN ex
    ELSE add_messages_lifo(add_message(ex, ms[Len(ms)]), SubSeq(ms, 1, Len(ms) - 1))

RECURSIVE add_messages(_, _)
add_messages(ex, ms) ==
    IF ms = <<>> THEN ex ELSE add_messages(add_message(ex, Head(ms)), Tail(ms))

\* mutant of check_for_new_messages: one try_recv instead of the loop
check_for_new_messages_once(ex, receiver) ==
    IF receiver = <<>> \/ receiver[1] = <<>> THEN ex
    ELSE add_message(ex, Head(receiver[1]))

\* app.rs 160-170: the store after check_for_new_messages. receiver is the
\* Option message_receiver, holding what try_recv yields until it fails:
\* the messages queued in the channel, oldest first
check_for_new_messages(ex, receiver) ==
    IF receiver = <<>> THEN ex ELSE add_messages(ex, receiver[1])


(***************************************************************************)
(* Data of the proxy: modes, JSON bodies, texts, headers                   *)
(***************************************************************************)
AppModes == {"Normal", "Paused", "Intercepting"}

\* the strings the model needs, as character codes
Str20 == <<50, 46, 48>>             \* "2.0"
StrA == <<97>>                      \* "a"
StrOk == <<111, 107>>               \* "ok"
StrCustom == <<99, 117, 115, 116>>  \* "custom response" (abridged to "cust")

\* A JSON object of a JSON-RPC body: what Value::get(name) returns for each
\* of the member names the code reads
JBody(jsonrpc, id, method, params, result, error) ==
    [jsonrpc |-> jsonrpc, id |-> id, method |-> method, params |-> params,
     result |-> result, error |-> error]

RequestBody(id, params) ==
    JBody(Some(JStr(Str20)), id, Some(JStr(StrA)), params, None, None)

\* the bodies clients post: a call with id 1 and a notification without id
Bodies == {RequestBody(Some(JNum(1)), Some(JNum(1))), RequestBody(None, None)}

\* header names and values, as character codes
Str ==
    [content_type |-> <<99, 111, 110, 116, 101, 110, 116, 45, 116, 121, 112, 101>>,
     host |-> <<104, 111, 115, 116>>,
     content_length |-> <<99, 111, 110, 116, 101, 110, 116, 45, 108, 101, 110, 103, 116, 104>>,
     transfer_encoding |-> <<116, 114, 97, 110, 115, 102, 101, 114, 45, 101, 110, 99, 111, 100, 105, 110, 103>>,
     connection |-> <<99, 111, 110, 110, 101, 99, 116, 105, 111, 110>>,
     proxy_completed |-> <<120, 45, 112, 114, 111, 120, 121, 45, 99, 111, 109, 112, 108, 101, 116, 101, 100>>,
     app_json |-> <<97, 112, 112, 108, 105, 99, 97, 116, 105, 111, 110, 47, 106, 115, 111, 110>>,
     text_html |-> <<116, 101, 120, 116, 47, 104, 116, 109, 108>>,
     localhost |-> <<108, 111, 99, 97, 108, 104, 111, 115, 116>>,
     true |-> <<116, 114, 117, 101>>,
     unknown |-> <<117, 110, 107, 110, 111, 119, 110>>]

\* the header maps clients send (names as the http library holds them)
ClientHeaders == [n \in {Str.content_type, Str.host} |->
                    IF n = Str.host THEN Str.localhost ELSE Str.app_json]
HeaderMaps == {ClientHeaders}

\* json!(body.get("id")): an absent member serialises as null
EchoId(body) == IF IsSome(body.id) THEN Unwrap(body.id) ELSE JNull

\* a text and what serde_json::from_str makes of it: raw is the layout of the
\* text (serde_json::to_string writes "compact"), which parsing drops
JsonText(value) == [ok |-> TRUE, value |-> value, raw |-> "compact"]
Garbage == [ok |-> FALSE, value |-> JBody(None, None, None, None, None, None),
            raw |-> "garbage"]
from_str(text) == IF text.ok THEN Some(text.value) ELSE None
\* serde_json::to_string_pretty, and any text the operator lays out by hand
Pretty(text) == [text EXCEPT !.raw = "pretty"]

\* Result<(), String>
Ok == [ok |-> TRUE, msg |-> "", arg |-> <<>>]
Err(msg, arg) == [ok |-> FALSE, msg |-> msg, arg |-> arg]

(***************************************************************************)
(* Messages built by the handler                                           *)
(***************************************************************************)
\* SystemTime::now(): the value of the k-th reading of the clock by task h
\* (task 0: the caller of add_message in the store's tests). No code compares
\* two readings; each is a distinct stamp.
Now(h, k) == [task |-> h, reading |-> k]

Message(id, method, params, result, error, ts, direction, transport, headers, src) ==
    [id |-> id, method |-> method, params |-> params, result |-> result,
     error |-> error, timestamp |-> ts, direction |-> direction,
     transport |-> transport, headers |-> headers, src |-> src]

\* proxy.rs 112-125 (src: the handler task that built it, history only)
RequestMessage(body, header_map, ts, h) ==
    Message(body.id,
            IF IsSome(body.method) /\ Unwrap(body.method).t = "str"
            THEN Some(Unwrap(body.method).v) ELSE None,
            body.params, None, None, ts, "Request", "Http", Some(header_map), h)

\* proxy.rs 207-220 and 289-299: id/result/error copied from a JSON body
ResponseMessage(json, headers, ts, h) ==
    Message(json.id, None, None, json.result, json.error, ts, "Response",
            "Http", headers, h)

\* proxy.rs 401-414, 434-447: an error the proxy itself reports
ErrorMessage(body, code, text, headers, ts, h) ==
    Message(body.id, None, None, None, Some(ErrObj(code, text, None)), ts,
            "Response", "Http", headers, h)

\* mutant of CompletedHeaders: the marker of a completed request is left out
CompletedHeadersUnmarked == [n \in {Str.content_type} |-> Str.app_json]

\* proxy.rs 216-219
CompletedHeaders == [n \in {Str.content_type, Str.proxy_completed} |->
                       IF n = Str.content_type THEN Str.app_json ELSE Str.true]

\* the JSON-RPC error envelope sent to the client
ErrorEnvelope(body, code, text) ==
    JBody(Some(JStr(Str20)), Some(EchoId(body)), None, None, None,
          Some(ErrObj(code, text, None)))

Reply(status, body) == [status |-> status, body |-> body]

\* mutant of BlockedReply: the block is reported with an HTTP error status
BlockedReplyForbidden(body) ==
    Reply(403, ErrorEnvelope(body, -32603, "Request blocked by user"))

\* proxy.rs 191-204
BlockedReply(body) == Reply(200, ErrorEnvelope(body, -32603, "Request blocked by user"))

\* mutant of TimeoutReply: the envelope does not echo the request id
TimeoutReplyNullId(body) ==
    Reply(408, JBody(Some(JStr(Str20)), Some(JNull), None, None, None,
                     Some(ErrObj(-32603, "Request timed out waiting for user decision", None))))

\* proxy.rs 230-243
TimeoutReply(body) ==
    Reply(408, ErrorEnvelope(body, -32603, "Request timed out waiting for user decision"))

\* proxy.rs 205-229
CompletedReply(response_json) == Reply(200, response_json)


(***************************************************************************)
(* forward_request: the call to the target and its four branches           *)
(***************************************************************************)
\* str::to_lowercase on ASCII character codes
Lower(n) == [i \in 1..Len(n) |-> IF n[i] \in 65..90 THEN n[i] + 32 ELSE n[i]]

\* mutant of should_forward_header: host is missing from the denied names
should_forward_header_but_host(header_name) ==
    Lower(header_name) \notin {Str.content_length, Str.transfer_encoding, Str.connection}

\* proxy.rs 466-471
should_forward_header(header_name) ==
    Lower(header_name) \notin {Str.host, Str.content_length, Str.transfer_encoding, Str.connection}

\* proxy.rs 262-267: the headers put on the upstream request
ForwardedHeaders(headers) ==
    [n \in {k \in DOMAIN headers : should_forward_header(k)} |-> headers[n]]

\* what the target answers: no connection, a body that cannot be read, a JSON
\* body, or a body that is not JSON
UpResponse(kind, status, headers, value, text) ==
    [kind |-> kind, status |-> status, headers |-> headers, value |-> value, text |-> text]

NoHeaders == [n \in {} |-> <<>>]
JsonHeaders == [n \in {Str.content_type} |-> Str.app_json]
HtmlHeaders == [n \in {Str.content_type} |-> Str.text_html]
NoValue == JBody(None, None, None, None, None, None)
StrHtml == <<60, 104, 62>>          \* "<h>"

\* a target that echoes the id it received with a result
EchoResponse(body) ==
    UpResponse("json", 200, JsonHeaders,
               JBody(Some(JStr(Str20)), Some(EchoId(body)), None, None, Some(JStr(StrOk)), None),
               <<>>)

UpstreamResponses(body) ==
    { UpResponse("connect_fail", 0, NoHeaders, NoValue, <<>>),
      UpResponse("read_fail", 200, JsonHeaders, NoValue, <<>>),
      EchoResponse(body),
      UpResponse("text", 200, HtmlHeaders, NoValue, StrHtml) }

\* str::trim on character codes (char::is_whitespace below U+0100)
IsSpace(c) == c \in {9, 10, 11, 12, 13, 32, 133, 160}
RECURSIVE TrimStart(_)
TrimStart(s) == IF s # <<>> /\ IsSpace(Head(s)) THEN TrimStart(Tail(s)) ELSE s
RECURSIVE TrimEnd(_)
TrimEnd(s) == IF s # <<>> /\ IsSpace(s[Len(s)]) THEN TrimEnd(SubSeq(s, 1, Len(s) - 1)) ELSE s
Trim(s) == TrimEnd(TrimStart(s))

Contains(s, c) == \E i \in 1..Len(s) : s[i] = c
\* str::contains for a substring
ContainsStr(s, sub) == \E i \in 0..(Len(s) - Len(sub)) : SubSeq(s, i + 1, i + Len(sub)) = sub
StartsWith(s, c) == s # <<>> /\ Head(s) = c

\* str::find(c): the 1-based position of the first c, 0 when there is none
Find(s, c) == IF Contains(s, c) THEN CHOOSE i \in 1..Len(s) : s[i] = c /\ \A j \in 1..(i - 1) : s[j] # c
              ELSE 0

\* str::lines: split at line feeds, a carriage return before one is dropped,
\* and a final line feed starts no further line
StripCR(line) == IF line # <<>> /\ line[Len(line)] = 13 THEN SubSeq(line, 1, Len(line) - 1)
                 ELSE line
RECURSIVE Lines(_)
Lines(text) ==
    IF text = <<>> THEN <<>>
    ELSE IF Find(text, 10) = 0 THEN <<text>>
    ELSE <<StripCR(SubSeq(text, 1, Find(text, 10) - 1))>>
         \o Lines(SubSeq(text, Find(text, 10) + 1, Len(text)))

BinaryPreviewBytes == 50
JsonPreviewLimit == 500
TextPreviewLimit == 200

\* proxy.rs 321-338
ContentPreview(text) ==
    IF Contains(text, 0)
    THEN [fmt |-> "binary", chars |-> Take(text, BinaryPreviewBytes)]
    ELSE IF StartsWith(Trim(text), 123) \/ StartsWith(Trim(text), 91)
    THEN IF Len(text) > JsonPreviewLimit
         THEN [fmt |-> "cut", chars |-> SubSeq(text, 1, JsonPreviewLimit)]
         ELSE [fmt |-> "whole", chars |-> text]
    ELSE IF Len(text) > TextPreviewLimit
         THEN [fmt |-> "cut", chars |-> SubSeq(text, 1, TextPreviewLimit)]
         ELSE [fmt |-> "whole", chars |-> text]

\* proxy.rs 311-314
ContentType(headers) ==
    IF Str.content_type \in DOMAIN headers THEN headers[Str.content_type] ELSE Str.unknown

\* proxy.rs 341-351
IssueType(text, content_type) ==
    IF Trim(text) = <<>> THEN "empty_response"
    ELSE IF Contains(text, 0) THEN "binary_data"
    ELSE IF ContainsStr(content_type, Str.text_html) THEN "html_response"
    ELSE IF ContainsStr(content_type, Str.app_json) THEN "malformed_json"
    ELSE "unknown_format"

\* format!("Invalid JSON response from server (HTTP {})", status)
InvalidJsonText(status) ==
    IF status = 200 THEN "Invalid JSON response from server (HTTP 200 OK)"
    ELSE "Invalid JSON response from server (HTTP other)"

\* proxy.rs 353-375: the diagnostic kept for the operator
MalformedMessage(body, u, ts, h) ==
    Message(body.id, None, None, None,
            Some(ErrObj(-32700, InvalidJsonText(u.status),
                 Some(JObj([issue_type |-> IssueType(u.text, ContentType(u.headers)),
                            content_type |-> ContentType(u.headers),
                            response_preview |-> ContentPreview(u.text),
                            response_length |-> Len(u.text),
                            has_null_bytes |-> Contains(u.text, 0),
                            parse_error |-> "parse error",
                            target_url |-> "target"])))),
            ts, "Response", "Http", Some(u.headers), h)

\* mutant of MalformedReply: the envelope carries no data member
MalformedReplyBare(body, u) ==
    Reply(200, ErrorEnvelope(body, -32700, InvalidJsonText(u.status)))

\* proxy.rs 380-395: the reply for a body that is not JSON
MalformedReply(body, u) ==
    Reply(200,
          JBody(Some(JStr(Str20)), Some(EchoId(body)), None, None, None,
                Some(ErrObj(-32700, InvalidJsonText(u.status),
                     Some(JObj([issue_type |-> IssueType(u.text, ContentType(u.headers)),
                                content_type |-> ContentType(u.headers),
                                has_null_bytes |-> Contains(u.text, 0)]))))))

\* proxy.rs 269-463: the Response message logged for an answer of the target
ForwardMessage(body, u, ts, h) ==
    CASE u.kind = "connect_fail" ->
            ErrorMessage(body, -32603, "Failed to connect to target server", None, ts, h)
      [] u.kind = "read_fail" ->
            ErrorMessage(body, -32603, "Internal error - failed to read response",
                         Some(u.headers), ts, h)
      [] u.kind = "json" -> ResponseMessage(u.value, Some(u.headers), ts, h)
      [] OTHER -> MalformedMessage(body, u, ts, h)

\* proxy.rs 269-463: the reply to the client for an answer of the target
ForwardReply(body, u) ==
    CASE u.kind = "connect_fail" ->
            Reply(502, ErrorEnvelope(body, -32603, "Failed to connect to target server"))
      [] u.kind = "read_fail" ->
            Reply(500, ErrorEnvelope(body, -32603, "Internal error - failed to read response"))
      [] u.kind = "json" -> Reply(u.status, u.value)
      [] OTHER -> MalformedReply(body, u)


(***************************************************************************)
(* Channels and the decision rendezvous                                    *)
(***************************************************************************)
\* run_app has returned: App and both receivers are dropped
Exited == ctl = "exited"

\* mutant of ChanSend: the item is never queued
ChanSendNever(chan, item) == chan

\* mutant of ChanSend: the item is queued twice
ChanSendTwice(chan, item) == IF Exited THEN chan ELSE Append(Append(chan, item), item)

\* mpsc::UnboundedSender::send: queued at the back, or refused (and the
\* result ignored) once the receiver is gone
ChanSend(chan, item) == IF Exited THEN chan ELSE Append(chan, item)

\* ProxyDecision
Decision(kind, json, headers) == [kind |-> kind, json |-> json, headers |-> headers]
Allow(json, headers) == Decision("Allow", json, headers)
Block == Decision("Block", None, None)
Complete(json) == Decision("Complete", Some(json), None)

\* the oneshot channel of a handler: none (not created), open, sent (a
\* decision waits in it), closed (the receiver is gone), dropped (the sender
\* was dropped without a decision)
SinkOf(state, value) == [state |-> state, value |-> value]

\* mutant of SinkSend: the decision is stored although the receiver is gone
SinkSendAlways(sk, d) == IF sk.state # "none" THEN SinkOf("sent", Some(d)) ELSE sk

\* oneshot::Sender::send: delivered when the receiver still waits
SinkSend(sk, d) == IF sk.state = "open" THEN SinkOf("sent", Some(d)) ELSE sk

\* dropping a PendingRequest drops its decision_sender
SinkDrop(sk) == IF sk.state = "open" THEN SinkOf("dropped", None) ELSE sk

\* PendingRequest (decision_sender: the sink of handler owner)
PendingRequest(h, request_message) ==
    [owner |-> h, original_request |-> request_message,
     modified_request |-> None, modified_headers |-> None]

Owners(q) == {q[i].owner : i \in 1..Len(q)}

\* Vec::remove(i) for the 0-based index i
RemoveAt(q, i) == SubSeq(q, 1, i) \o SubSeq(q, i + 2, Len(q))

(***************************************************************************)
(* The state after construction: main.rs 82-125, App::new_with_receiver,   *)
(* ProxyServer::new / with_state                                           *)
(***************************************************************************)
\* a handler task before its request arrives. probed, enqueued and outcome
\* are history: the mode read at the probe, the PendingRequests created, and
\* the branch that ended the request
FreshHandler ==
    [pc |-> "new", body |-> NoValue, headers |-> NoHeaders, fwd_body |-> NoValue,
     request_message |-> None, probed |-> None, enqueued |-> 0, reply |-> None,
     outcome |-> "none"]

Init ==
    /\ exchanges = <<>>
    /\ applied = <<>>
    /\ msgChan = <<>>
    /\ pendChan = <<>>
    /\ pending_requests = <<>>
    /\ selected_pending = 0
    /\ app_mode = "Normal"
    /\ has_state \in BOOLEAN
    /\ shared_mode \in (IF has_state THEN AppModes ELSE {"Normal"})
    /\ mode_lock = 0
    /\ ctl = "tick"
    /\ hs = [h \in Handlers |-> FreshHandler]
    /\ sink = [h \in Handlers |-> SinkOf("none", None)]
    /\ upstream = [h \in Handlers |-> <<>>]
    /\ dispatched = [h \in Handlers |-> <<>>]
    /\ selected_exchange = 0
    /\ input_mode = "Normal"
    /\ input_buffer = <<>>
    /\ filter_text = <<>>
    /\ target_url = <<>>
    /\ is_running = TRUE
    /\ proxy_server = (IF has_state THEN Some(1) ELSE None)
    /\ tasks = (IF has_state THEN <<"running">> ELSE <<>>)

(***************************************************************************)
(* handle_proxy_request, one task per request                              *)
(***************************************************************************)
\* mutant of ShouldIntercept: Intercepting is taken for a pause as well
ShouldInterceptAnyPause(mode) == mode \in {"Paused", "Intercepting"}

\* proxy.rs 131-135
ShouldIntercept(mode) == mode = "Paused"

\* mutant of IngressMessages: the request is not logged at ingress
IngressMessagesNone(body, header_map, ts, h) == <<>>

\* proxy.rs 111-127: the messages sent at ingress
IngressMessages(body, header_map, ts, h) == <<RequestMessage(body, header_map, ts, h)>>

\* proxy.rs 260-269: the request the target receives
UpstreamCall(headers, body) ==
    [body |-> body, headers |-> ForwardedHeaders(headers)]

\* http::HeaderName::from_bytes: a non-empty token, held in lower case
IsTokenChar(c) ==
    c \in {33, 35, 36, 37, 38, 39, 42, 43, 45, 46, 94, 95, 96, 124, 126}
           \cup (48..57) \cup (65..90) \cup (97..122)
HeaderNameFromBytes(key) ==
    IF key # <<>> /\ \A i \in 1..Len(key) : IsTokenChar(key[i]) THEN Some(Lower(key))
    ELSE None

\* http::HeaderValue::from_str: no control character but the tab
HeaderValueFromStr(value) ==
    IF \A i \in 1..Len(value) : (value[i] >= 32 /\ value[i] # 127) \/ value[i] = 9
    THEN Some(value) ELSE None

\* proxy.rs 168-177: the header maps the conversion of the operator's mapping
\* can give. An entry whose name or value the http library refuses is left
\* out; entries whose names differ in case only land on one name, and the one
\* the HashMap yields last stays (its iteration order is not fixed).
ConvertedHeaders(mod_headers) ==
    LET valid == {k \in DOMAIN mod_headers :
                     /\ IsSome(HeaderNameFromBytes(k))
                     /\ IsSome(HeaderValueFromStr(mod_headers[k]))}
        names == {Unwrap(HeaderNameFromBytes(k)) : k \in valid}
    IN {f \in [names -> {mod_headers[k] : k \in valid}] :
           \A n \in names :
               \E k \in valid : Unwrap(HeaderNameFromBytes(k)) = n /\ f[n] = mod_headers[k]}

\* mutant of FinalHeaders: the operator's mapping is laid over the original
\* headers
FinalHeadersMerged(headers, modified_headers) ==
    IF IsSome(modified_headers)
    THEN {[n \in DOMAIN f \cup DOMAIN headers |-> IF n \in DOMAIN f THEN f[n] ELSE headers[n]] :
             f \in ConvertedHeaders(Unwrap(modified_headers))}
    ELSE {headers}

\* mutant of FinalHeaders: without a mapping of the operator no header is kept
FinalHeadersDropped(headers, modified_headers) ==
    IF IsSome(modified_headers) THEN ConvertedHeaders(Unwrap(modified_headers))
    ELSE {NoHeaders}

\* proxy.rs 166-180: the operator's mapping replaces the headers as a whole
FinalHeaders(headers, modified_headers) ==
    IF IsSome(modified_headers) THEN ConvertedHeaders(Unwrap(modified_headers))
    ELSE {headers}

RECURSIVE SendAll(_, _)
SendAll(chan, ms) == IF ms = <<>> THEN chan ELSE SendAll(ChanSend(chan, Head(ms)), Tail(ms))

\* proxy.rs 95-127: handle_proxy_request is called with headers and body
HIngressWith(h, body, headers) ==
    /\ hs[h].pc = "new"
    /\ hs' = [hs EXCEPT ![h].pc = "probe", ![h].body = body, ![h].headers = headers,
                         ![h].request_message =
                             Some(RequestMessage(body, headers, Now(h, 1), h))]
    /\ msgChan' = SendAll(msgChan, IngressMessages(body, headers, Now(h, 1), h))
    /\ UNCHANGED <<exchanges, applied, pendChan, pending_requests, selected_pending,
                   app_mode, shared_mode, mode_lock, has_state, selected_exchange, inputVars, serverVars, ctl, sink, upstream,
                   dispatched>>

HIngress(h) == \E body \in Bodies, headers \in HeaderMaps : HIngressWith(h, body, headers)

\* proxy.rs 130-131: state.app_mode.lock()
HLock(h) ==
    /\ hs[h].pc = "probe"
    /\ has_state
    /\ mode_lock = 0
    /\ mode_lock' = h
    /\ hs' = [hs EXCEPT ![h].pc = "locked"]
    /\ UNCHANGED <<exchanges, applied, msgChan, pendChan, pending_requests,
                   selected_pending, app_mode, shared_mode, has_state, selected_exchange, inputVars, serverVars, ctl, sink,
                   upstream, dispatched>>

\* proxy.rs 131-152 and 248-249: the mode probe, then interception or forwarding
HProbe(h) ==
    /\ hs[h].pc = "locked"
    /\ mode_lock' = 0
    /\ IF ShouldIntercept(shared_mode)
       THEN /\ hs' = [hs EXCEPT ![h].pc = "wait", ![h].probed = Some(shared_mode),
                                ![h].enqueued = @ + 1]
            /\ pendChan' = ChanSend(pendChan,
                                    PendingRequest(h, Unwrap(hs[h].request_message)))
            /\ sink' = [sink EXCEPT ![h] = IF Exited THEN SinkOf("dropped", None)
                                           ELSE SinkOf("open", None)]
            /\ UNCHANGED upstream
       ELSE /\ hs' = [hs EXCEPT ![h].pc = "upstream", ![h].probed = Some(shared_mode),
                                ![h].fwd_body = hs[h].body, ![h].outcome = "pass"]
            /\ upstream' = [upstream EXCEPT
                                ![h] = Append(@, UpstreamCall(hs[h].headers, hs[h].body))]
            /\ UNCHANGED <<pendChan, sink>>
    /\ UNCHANGED <<exchanges, applied, msgChan, pending_requests,
                   selected_pending, app_mode, shared_mode, has_state, selected_exchange, inputVars, serverVars, ctl, dispatched>>


\* proxy.rs 130 and 248-249: no proxy state, the request is forwarded
HPass(h) ==
    /\ hs[h].pc = "probe"
    /\ ~has_state
    /\ hs' = [hs EXCEPT ![h].pc = "upstream", ![h].fwd_body = hs[h].body,
                        ![h].outcome = "pass"]
    /\ upstream' = [upstream EXCEPT ![h] = Append(@, UpstreamCall(hs[h].headers, hs[h].body))]
    /\ UNCHANGED <<exchanges, applied, msgChan, pendChan, pending_requests,
                   selected_pending, app_mode, shared_mode, mode_lock, has_state, selected_exchange, inputVars, serverVars, ctl,
                   sink, dispatched>>

\* mutant of unwrap_or: the operator's body is dropped
unwrap_or_original(modified_json, body) == body

\* proxy.rs 163: modified_json.unwrap_or(body)
unwrap_or(modified_json, body) ==
    IF IsSome(modified_json) THEN Unwrap(modified_json) ELSE body

\* proxy.rs 160-229: the decision has arrived
HDecide(h) ==
    /\ hs[h].pc = "wait"
    /\ sink[h].state = "sent"
    /\ LET d == Unwrap(sink[h].value) IN
       CASE d.kind = "Allow" ->
              LET request_body == unwrap_or(d.json, hs[h].body)
              IN \E final_headers \in FinalHeaders(hs[h].headers, d.headers) :
                 /\ hs' = [hs EXCEPT ![h].pc = "upstream", ![h].fwd_body = request_body,
                                     ![h].outcome = "Allow"]
                 /\ upstream' = [upstream EXCEPT
                                     ![h] = Append(@, UpstreamCall(final_headers, request_body))]
                 /\ UNCHANGED msgChan
         [] d.kind = "Block" ->
                 /\ hs' = [hs EXCEPT ![h].pc = "done", ![h].outcome = "Block",
                                     ![h].reply = Some(BlockedReply(hs[h].body))]
                 /\ UNCHANGED <<msgChan, upstream>>
         [] OTHER ->
              LET response_json == Unwrap(d.json) IN
                 /\ hs' = [hs EXCEPT ![h].pc = "done", ![h].outcome = "Complete",
                                     ![h].reply = Some(CompletedReply(response_json))]
                 /\ msgChan' = ChanSend(msgChan,
                        ResponseMessage(response_json, Some(CompletedHeaders), Now(h, 2), h))
                 /\ UNCHANGED upstream
    /\ sink' = [sink EXCEPT ![h] = SinkOf("closed", None)]
    /\ UNCHANGED <<exchanges, applied, pendChan, pending_requests, selected_pending,
                   app_mode, shared_mode, mode_lock, has_state, selected_exchange, inputVars, serverVars, ctl, dispatched>>

\* mutant of WaitFails: the receiver is awaited without a timeout
WaitFailsNoTimer(sk) == sk.state = "dropped"

\* mutant of WaitFails: a sender dropped without a decision goes unnoticed
WaitFailsOpenOnly(sk) == sk.state = "open"

\* proxy.rs 154-160, 230: Err(_) of the timeout (no decision in the sink when
\* the timer fires) or Ok(Err(_)) of the receiver (the sender was dropped)
WaitFails(sk) == sk.state \in {"open", "dropped"}

\* proxy.rs 153-160, 230-243: the 300 s timer fires before a decision is in
\* the sink, or the sender was dropped without a decision
HTimeout(h) ==
    /\ hs[h].pc = "wait"
    /\ WaitFails(sink[h])
    /\ hs' = [hs EXCEPT ![h].pc = "done", ![h].outcome = "timeout",
                        ![h].reply = Some(TimeoutReply(hs[h].body))]
    /\ sink' = [sink EXCEPT ![h] = SinkOf("closed", None)]
    /\ UNCHANGED <<exchanges, applied, msgChan, pendChan, pending_requests,
                   selected_pending, app_mode, shared_mode, mode_lock, has_state, selected_exchange, inputVars, serverVars, ctl,
                   upstream, dispatched>>

\* proxy.rs 269-463: the target answers (or the connection fails)
HUpstream(h) ==
    /\ hs[h].pc = "upstream"
    /\ \E u \in UpstreamResponses(hs[h].fwd_body) :
         /\ msgChan' = ChanSend(msgChan, ForwardMessage(hs[h].fwd_body, u, Now(h, 2), h))
         /\ hs' = [hs EXCEPT ![h].pc = "done",
                             ![h].reply = Some(ForwardReply(hs[h].fwd_body, u))]
    /\ UNCHANGED <<exchanges, applied, pendChan, pending_requests, selected_pending,
                   app_mode, shared_mode, mode_lock, has_state, selected_exchange, inputVars, serverVars, ctl, sink, upstream,
                   dispatched>>


(***************************************************************************)
(* App: the controller's operations on the pending queue                   *)
(***************************************************************************)
\* json!(x) of an Option: None serialises as null
OrNull(o) == IF IsSome(o) THEN Unwrap(o) ELSE JNull

\* app.rs 542-557: the JSON offered to the operator for editing
PendingRequestJson(p) ==
    JBody(Some(JStr(Str20)), Some(OrNull(p.original_request.id)),
          Some(IF IsSome(p.original_request.method)
               THEN JStr(Unwrap(p.original_request.method)) ELSE JNull),
          Some(OrNull(p.original_request.params)), None, None)

\* app.rs 646-660
PendingResponseTemplate(p) ==
    JBody(Some(JStr(Str20)), Some(OrNull(p.original_request.id)), None, None,
          Some(JStr(StrCustom)), None)

Str10 == <<49, 46, 48>>             \* "1.0"

\* what the operator may save from the editor: the body with params set to 2,
\* a text that is not JSON, a body whose jsonrpc member is "1.0", absent or
\* the number 2, and a body without method
EditTexts(p) ==
    LET edited == [PendingRequestJson(p) EXCEPT !.params = Some(JNum(2))]
    IN { Pretty(JsonText(edited)), Garbage,
         Pretty(JsonText([edited EXCEPT !.jsonrpc = Some(JStr(Str10))])),
         Pretty(JsonText([edited EXCEPT !.jsonrpc = None])),
         Pretty(JsonText([edited EXCEPT !.jsonrpc = Some(JNum(2))])),
         Pretty(JsonText([edited EXCEPT !.method = None])) }

\* an edit that validation lets through and that gives the request another id
EditIdTexts(p) == {Pretty(JsonText([PendingRequestJson(p) EXCEPT !.id = Some(JNum(2))]))}

\* the response the operator may save: the template (for a request without
\* id, the template with an error in place of the result), a text that is
\* not JSON, and responses with a wrong jsonrpc member, without id, with
\* neither result nor error, with both
CompleteTexts(p) ==
    LET template == PendingResponseTemplate(p)
        custom_error == ErrObj(-1, "custom error", None)
    IN { IF IsSome(p.original_request.id)
         THEN Pretty(JsonText(template))
         ELSE Pretty(JsonText([template EXCEPT !.result = None, !.error = Some(custom_error)])),
         Garbage,
         Pretty(JsonText([template EXCEPT !.jsonrpc = Some(JStr(Str10))])),
         Pretty(JsonText([template EXCEPT !.id = None])),
         Pretty(JsonText([template EXCEPT !.result = None])),
         Pretty(JsonText([template EXCEPT !.error = Some(custom_error)])) }

\* header texts the operator may save: comment, blank line, a denied name in
\* capitals, two names that differ in case only, a name with a space, a value
\* with a control character and a line with an empty name; the empty text;
\* and a text with a line that has no colon
HeaderTextMixed == <<35, 32, 99, 10, 10, 72, 111, 115, 116, 58, 32, 101, 118, 105, 108, 10, 120, 45, 97, 58, 32, 49, 10, 88, 45, 65, 58, 32, 50, 10, 98, 97, 100, 32, 110, 97, 109, 101, 58, 32, 118, 10, 120, 45, 98, 58, 32, 7, 10, 32, 58, 32, 119, 10>>
HeaderTextEmpty == <<>>
HeaderTextNoColon == <<120, 45, 97, 58, 32, 49, 10, 110, 111, 99, 111, 108, 111, 110, 10>>
HeaderTexts == {HeaderTextMixed, HeaderTextEmpty, HeaderTextNoColon}

\* mutant of AllowDecision: without an edited body the edited headers are not sent
AllowDecisionBare(pending) ==
    IF IsSome(pending.modified_request)
    THEN IF IsSome(from_str(Unwrap(pending.modified_request)))
         THEN Allow(from_str(Unwrap(pending.modified_request)), pending.modified_headers)
         ELSE Allow(None, pending.modified_headers)
    ELSE Allow(None, None)

\* app.rs 505-514
AllowDecision(pending) ==
    IF IsSome(pending.modified_request)
    THEN IF IsSome(from_str(Unwrap(pending.modified_request)))
         THEN Allow(from_str(Unwrap(pending.modified_request)), pending.modified_headers)
         ELSE Allow(None, pending.modified_headers)
    ELSE Allow(None, pending.modified_headers)

\* mutant of SelectionAfterRemove: the selection stays where it was
SelectionAfterRemoveNever(sel, newlen) == sel

\* mutant of SelectionAfterRemove: a selection above 0 always moves up
SelectionAfterRemoveAlways(sel, newlen) == IF sel > 0 THEN sel - 1 ELSE sel

\* app.rs 500-502, 523-525, 694-696
SelectionAfterRemove(sel, newlen) == IF sel > 0 /\ sel >= newlen THEN sel - 1 ELSE sel

\* mutant of RemoveSelected: the entry is read but left in the queue
RemoveSelectedKeep(q, sel) == q

\* app.rs 499, 522, 693: self.pending_requests.remove(self.selected_pending)
RemoveSelected(q, sel) == RemoveAt(q, sel)

\* history: a decision sent and the operator's edits that resume_all_requests
\* left behind with the entry, if it held any
Sent(pending, d, op) ==
    [decision |-> d,
     unused |-> IF op = "resume" /\ (IsSome(pending.modified_request)
                                     \/ IsSome(pending.modified_headers))
                THEN Some([modified_request |-> pending.modified_request,
                           modified_headers |-> pending.modified_headers])
                ELSE None]

\* pending.decision_sender.send(decision), result ignored
Dispatch(pending, d, op) ==
    /\ sink' = [sink EXCEPT ![pending.owner] = SinkSend(@, d)]
    /\ dispatched' = [dispatched EXCEPT ![pending.owner] = Append(@, Sent(pending, d, op))]

\* app.rs 497-518
allow_selected_request ==
    IF selected_pending < Len(pending_requests)
    THEN LET pending == pending_requests[selected_pending + 1] IN
         /\ pending_requests' = RemoveSelected(pending_requests, selected_pending)
         /\ selected_pending' = SelectionAfterRemove(selected_pending, Len(pending_requests'))
         /\ Dispatch(pending, AllowDecision(pending), "allow")
    ELSE UNCHANGED <<pending_requests, selected_pending, sink, dispatched>>

\* app.rs 520-530
block_selected_request ==
    IF selected_pending < Len(pending_requests)
    THEN LET pending == pending_requests[selected_pending + 1] IN
         /\ pending_requests' = RemoveSelected(pending_requests, selected_pending)
         /\ selected_pending' = SelectionAfterRemove(selected_pending, Len(pending_requests'))
         /\ Dispatch(pending, Block, "block")
    ELSE UNCHANGED <<pending_requests, selected_pending, sink, dispatched>>

\* mutant of CompleteResult: a response with both result and error is accepted
CompleteResultLax(q, sel, response_json) ==
    IF sel >= Len(q) THEN Err("No pending request selected", <<>>)
    ELSE IF IsNone(from_str(response_json)) THEN Err("Invalid JSON", <<>>)
    ELSE LET parsed == Unwrap(from_str(response_json))
         IN IF parsed.jsonrpc # Some(JStr(Str20))
            THEN Err("Missing or invalid 'jsonrpc' field", <<>>)
            ELSE IF IsNone(parsed.id) THEN Err("Missing 'id' field", <<>>)
            ELSE IF IsNone(parsed.result) /\ IsNone(parsed.error)
            THEN Err("Response must have either 'result' or 'error' field", <<>>)
            ELSE Ok

\* app.rs 663-690: the value complete_selected_request returns
CompleteResult(q, sel, response_json) ==
    IF sel >= Len(q) THEN Err("No pending request selected", <<>>)
    ELSE IF IsNone(from_str(response_json)) THEN Err("Invalid JSON", <<>>)
    ELSE LET parsed == Unwrap(from_str(response_json))
             has_result == IsSome(parsed.result)
             has_error == IsSome(parsed.error)
         IN IF parsed.jsonrpc # Some(JStr(Str20))
            THEN Err("Missing or invalid 'jsonrpc' field", <<>>)
            ELSE IF IsNone(parsed.id) THEN Err("Missing 'id' field", <<>>)
            ELSE IF ~has_result /\ ~has_error
            THEN Err("Response must have either 'result' or 'error' field", <<>>)
            ELSE IF has_result /\ has_error
            THEN Err("Response cannot have both 'result' and 'error' fields", <<>>)
            ELSE Ok

\* app.rs 662-703
complete_selected_request(response_json) ==
    IF CompleteResult(pending_requests, selected_pending, response_json).ok
    THEN LET pending == pending_requests[selected_pending + 1] IN
         /\ pending_requests' = RemoveSelected(pending_requests, selected_pending)
         /\ selected_pending' = SelectionAfterRemove(selected_pending, Len(pending_requests'))
         /\ Dispatch(pending, Complete(Unwrap(from_str(response_json))), "complete")
    ELSE UNCHANGED <<pending_requests, selected_pending, sink, dispatched>>

\* mutant of ResumeSinks: every entry is released with its own edits, as
\* allow_selected_request does
RECURSIVE ResumeSinksEdited(_, _)
ResumeSinksEdited(sk, q) ==
    IF q = <<>> THEN sk
    ELSE ResumeSinksEdited([sk EXCEPT ![Head(q).owner] = SinkSend(@, AllowDecision(Head(q)))],
                           Tail(q))

\* app.rs 532-540: Allow(None, None) to every entry, in queue order
RECURSIVE ResumeSinks(_, _)
ResumeSinks(sk, q) ==
    IF q = <<>> THEN sk
    ELSE ResumeSinks([sk EXCEPT ![Head(q).owner] = SinkSend(@, Allow(None, None))], Tail(q))

RECURSIVE ResumeDispatched(_, _)
ResumeDispatched(ds, q) ==
    IF q = <<>> THEN ds
    ELSE ResumeDispatched([ds EXCEPT ![Head(q).owner] =
                                 Append(@, Sent(Head(q), Allow(None, None), "resume"))],
                          Tail(q))

\* mutant of DrainedQueue: the entries are read and left in the queue
DrainedQueueKept(q) == q

\* app.rs 533: self.pending_requests.drain(..) leaves the queue empty
DrainedQueue(q) == <<>>

resume_all_requests ==
    /\ sink' = ResumeSinks(sink, pending_requests)
    /\ dispatched' = ResumeDispatched(dispatched, pending_requests)
    /\ pending_requests' = DrainedQueue(pending_requests)
    /\ selected_pending' = 0
    /\ app_mode' = "Normal"

\* mutant of ToggledMode: a paused App goes on to Intercepting
ToggledModeIntercept(mode) ==
    CASE mode = "Normal" -> "Paused"
      [] mode = "Paused" -> "Intercepting"
      [] OTHER -> "Normal"

\* app.rs 468-472: the match of toggle_pause_mode
ToggledMode(mode) ==
    CASE mode = "Normal" -> "Paused"
      [] mode = "Paused" -> "Normal"
      [] OTHER -> "Normal"

\* app.rs 467-473
toggle_pause_mode == app_mode' = ToggledMode(app_mode)

\* app.rs 475-480
select_next_pending ==
    IF pending_requests # <<>>
    THEN selected_pending' = (selected_pending + 1) % Len(pending_requests)
    ELSE UNCHANGED selected_pending

\* app.rs 482-491
select_previous_pending ==
    IF pending_requests # <<>>
    THEN selected_pending' = (IF selected_pending = 0 THEN Len(pending_requests) - 1
                              ELSE selected_pending - 1)
    ELSE UNCHANGED selected_pending

\* app.rs 560-575, 580: the value apply_edited_json returns
EditResult(q, sel, edited_json) ==
    IF sel >= Len(q) THEN Err("No pending request selected", <<>>)
    ELSE IF IsNone(from_str(edited_json)) THEN Err("Invalid JSON", <<>>)
    ELSE IF Unwrap(from_str(edited_json)).jsonrpc # Some(JStr(Str20))
    THEN Err("Missing or invalid 'jsonrpc' field", <<>>)
    ELSE IF IsNone(Unwrap(from_str(edited_json)).method) THEN Err("Missing 'method' field", <<>>)
    ELSE Ok

\* mutant of StoreEdited: the parsed value is written back in its own layout
StoreEditedReserialised(q, sel, edited_json) ==
    [q EXCEPT ![sel + 1].modified_request = Some(JsonText(Unwrap(from_str(edited_json))))]

\* app.rs 578
StoreEdited(q, sel, edited_json) ==
    [q EXCEPT ![sel + 1].modified_request = Some(edited_json)]

\* app.rs 559-581: the pending queue apply_edited_json leaves
EditedQueue(q, sel, edited_json) ==
    IF EditResult(q, sel, edited_json).ok THEN StoreEdited(q, sel, edited_json) ELSE q

apply_edited_json(edited_json) ==
    pending_requests' = EditedQueue(pending_requests, selected_pending, edited_json)

\* HashMap::insert
Insert(map, key, value) ==
    [n \in DOMAIN map \cup {key} |-> IF n = key THEN value ELSE map[n]]

\* app.rs 614-638: the loop over the lines of the text; the error names the
\* first line that has no colon
RECURSIVE ParseHeaderLines(_, _)
ParseHeaderLines(lines, headers) ==
    IF lines = <<>> THEN [ret |-> Ok, headers |-> headers]
    ELSE LET line == Trim(Head(lines))
             colon_pos == Find(line, 58)
             key == Trim(SubSeq(line, 1, colon_pos - 1))
             value == Trim(SubSeq(line, colon_pos + 1, Len(line)))
         IN IF line = <<>> \/ StartsWith(line, 35)
            THEN ParseHeaderLines(Tail(lines), headers)
            ELSE IF colon_pos = 0
            THEN [ret |-> Err("Invalid header format", line), headers |-> headers]
            ELSE IF key # <<>>
            THEN ParseHeaderLines(Tail(lines), Insert(headers, key, value))
            ELSE ParseHeaderLines(Tail(lines), headers)

\* app.rs 609-644: the value apply_edited_headers returns
HeadersResult(q, sel, edited_headers) ==
    IF sel >= Len(q) THEN Err("No pending request selected", <<>>)
    ELSE ParseHeaderLines(Lines(edited_headers), NoHeaders).ret

\* mutant of StoreHeaders: the parsed pairs are merged into the mapping kept
MergeHeaders(q, sel, headers) ==
    [q EXCEPT ![sel + 1].modified_headers =
        IF IsSome(@)
        THEN Some([n \in DOMAIN Unwrap(@) \cup DOMAIN headers |->
                      IF n \in DOMAIN headers THEN headers[n] ELSE Unwrap(@)[n]])
        ELSE Some(headers)]

\* app.rs 641
StoreHeaders(q, sel, headers) == [q EXCEPT ![sel + 1].modified_headers = Some(headers)]

\* app.rs 609-644: the pending queue apply_edited_headers leaves
HeadersQueue(q, sel, edited_headers) ==
    IF HeadersResult(q, sel, edited_headers).ok
    THEN StoreHeaders(q, sel, ParseHeaderLines(Lines(edited_headers), NoHeaders).headers)
    ELSE q

apply_edited_headers(edited_headers) ==
    pending_requests' = HeadersQueue(pending_requests, selected_pending, edited_headers)


(***************************************************************************)
(* run_app: one loop iteration is a tick, then at most one key             *)
(***************************************************************************)
\* mutant of SyncedMode: the slot is written whether or not a handler holds
\* the mutex
SyncedModeAlways(slot, mode, lock) == IF has_state THEN mode ELSE slot

\* main.rs 160-162: try_lock, skipped while a handler holds the mutex (the
\* slot is the one the handlers read: there is none without a proxy state)
SyncedMode(slot, mode, lock) == IF has_state /\ lock = 0 THEN mode ELSE slot

\* main.rs 735-743: the tail of a loop iteration that handled no key or a
\* key of the Normal input mode: a handle whose task has finished is
\* dropped and the proxy marked as stopped
CheckedHandle(handle, ts) ==
    IF IsSome(handle) /\ ts[Unwrap(handle)] = "finished" THEN None ELSE handle

CheckedRunning(handle, ts, running) ==
    IF IsSome(handle) /\ ts[Unwrap(handle)] = "finished" THEN FALSE ELSE running

ServerCheck ==
    /\ proxy_server' = CheckedHandle(proxy_server, tasks)
    /\ is_running' = CheckedRunning(proxy_server, tasks, is_running)

\* main.rs 155-170: the head of one loop iteration: check_for_new_messages
\* (app.rs 160-170), the mode mirrored into the shared slot, the pending
\* channel drained. The three parts touch disjoint state, so a handler step
\* between two of them has the effect of the same step before or after all.
Tick ==
    /\ ctl = "tick"
    /\ exchanges' = check_for_new_messages(exchanges, <<msgChan>>)
    /\ applied' = applied \o msgChan
    /\ msgChan' = <<>>
    /\ shared_mode' = SyncedMode(shared_mode, app_mode, mode_lock)
    /\ pending_requests' = pending_requests \o pendChan
    /\ pendChan' = <<>>
    /\ ctl' = "input"
    /\ UNCHANGED <<selected_pending, app_mode, mode_lock, has_state, selected_exchange, inputVars, serverVars, hs, sink,
                   upstream, dispatched>>

\* main.rs 173-178: no key within the poll interval
NoKey ==
    /\ ctl = "input"
    /\ ServerCheck
    /\ ctl' = "tick"
    /\ UNCHANGED <<exchanges, applied, msgChan, pendChan, pending_requests,
                   selected_pending, app_mode, shared_mode, mode_lock, has_state, selected_exchange, inputVars, target_url, tasks, hs,
                   sink, upstream, dispatched>>

\* main.rs 524-527: 'p'
KeyPause ==
    /\ ctl = "input"
    /\ input_mode = "Normal"
    /\ toggle_pause_mode
    /\ ServerCheck
    /\ ctl' = "tick"
    /\ UNCHANGED <<exchanges, applied, msgChan, pendChan, pending_requests,
                   selected_pending, shared_mode, mode_lock, has_state, selected_exchange, inputVars, target_url, tasks, hs, sink,
                   upstream, dispatched>>

\* main.rs 528-531: 'a'
KeyAllow ==
    /\ ctl = "input"
    /\ input_mode = "Normal"
    /\ allow_selected_request
    /\ ServerCheck
    /\ ctl' = "tick"
    /\ UNCHANGED <<exchanges, applied, msgChan, pendChan, app_mode, shared_mode,
                   mode_lock, has_state, selected_exchange, inputVars, target_url, tasks, hs, upstream>>

\* main.rs 709-712: 'b'
KeyBlock ==
    /\ ctl = "input"
    /\ input_mode = "Normal"
    /\ block_selected_request
    /\ ServerCheck
    /\ ctl' = "tick"
    /\ UNCHANGED <<exchanges, applied, msgChan, pendChan, app_mode, shared_mode,
                   mode_lock, has_state, selected_exchange, inputVars, target_url, tasks, hs, upstream>>

\* main.rs 619-664: 'c' with a pending request selected
KeyComplete ==
    /\ ctl = "input"
    /\ input_mode = "Normal"
    /\ app_mode \in {"Paused", "Intercepting"}
    /\ pending_requests # <<>>
    /\ selected_pending < Len(pending_requests)
    /\ \E text \in CompleteTexts(pending_requests[selected_pending + 1]) :
         complete_selected_request(text)
    /\ ServerCheck
    /\ ctl' = "tick"
    /\ UNCHANGED <<exchanges, applied, msgChan, pendChan, app_mode, shared_mode,
                   mode_lock, has_state, selected_exchange, inputVars, target_url, tasks, hs, upstream>>

\* main.rs 713-717: 'r'
KeyResume ==
    /\ ctl = "input"
    /\ input_mode = "Normal"
    /\ resume_all_requests
    /\ ServerCheck
    /\ ctl' = "tick"
    /\ UNCHANGED <<exchanges, applied, msgChan, pendChan, shared_mode, mode_lock,
                   has_state, selected_exchange, inputVars, target_url, tasks, hs, upstream>>

\* main.rs 532-569: 'e' with a pending request selected
KeyEdit ==
    /\ ctl = "input"
    /\ input_mode = "Normal"
    /\ selected_pending < Len(pending_requests)
    /\ \E text \in EditTexts(pending_requests[selected_pending + 1]) :
         apply_edited_json(text)
    /\ ServerCheck
    /\ ctl' = "tick"
    /\ UNCHANGED <<exchanges, applied, msgChan, pendChan, selected_pending,
                   app_mode, shared_mode, mode_lock, has_state, selected_exchange, inputVars, target_url, tasks, hs, sink, upstream,
                   dispatched>>

\* main.rs 532-569: 'e' with a pending request selected, the operator
\* changing the id member
KeyEditId ==
    /\ ctl = "input"
    /\ input_mode = "Normal"
    /\ selected_pending < Len(pending_requests)
    /\ \E text \in EditIdTexts(pending_requests[selected_pending + 1]) :
         apply_edited_json(text)
    /\ ServerCheck
    /\ ctl' = "tick"
    /\ UNCHANGED <<exchanges, applied, msgChan, pendChan, selected_pending,
                   app_mode, shared_mode, mode_lock, has_state, selected_exchange, inputVars, target_url, tasks, hs,
                   sink, upstream, dispatched>>

\* main.rs 570-608: 'h' with a pending request selected
KeyHeaders ==
    /\ ctl = "input"
    /\ input_mode = "Normal"
    /\ app_mode \in {"Paused", "Intercepting"}
    /\ selected_pending < Len(pending_requests)
    /\ \E text \in HeaderTexts : apply_edited_headers(text)
    /\ ServerCheck
    /\ ctl' = "tick"
    /\ UNCHANGED <<exchanges, applied, msgChan, pendChan, selected_pending,
                   app_mode, shared_mode, mode_lock, has_state, selected_exchange, inputVars, target_url, tasks, hs, sink, upstream,
                   dispatched>>

\* main.rs 285-302: Down while paused
KeyDown ==
    /\ ctl = "input"
    /\ input_mode = "Normal"
    /\ app_mode \in {"Paused", "Intercepting"}
    /\ select_next_pending
    /\ ServerCheck
    /\ ctl' = "tick"
    /\ UNCHANGED <<exchanges, applied, msgChan, pendChan, pending_requests,
                   app_mode, shared_mode, mode_lock, has_state, selected_exchange, inputVars, target_url, tasks, hs, sink, upstream,
                   dispatched>>

\* main.rs 267-284: Up while paused
KeyUp ==
    /\ ctl = "input"
    /\ input_mode = "Normal"
    /\ app_mode \in {"Paused", "Intercepting"}
    /\ select_previous_pending
    /\ ServerCheck
    /\ ctl' = "tick"
    /\ UNCHANGED <<exchanges, applied, msgChan, pendChan, pending_requests,
                   app_mode, shared_mode, mode_lock, has_state, selected_exchange, inputVars, target_url, tasks, hs, sink, upstream,
                   dispatched>>

\* mutant of AbortHeld: the handle is taken and dropped without abort
AbortHeldNot(ts, handle) == ts

\* main.rs 250-252, 261-263, 497-499: JoinHandle::abort on the task held
AbortHeld(ts, handle) ==
    IF IsSome(handle) /\ ts[Unwrap(handle)] = "running"
    THEN [ts EXCEPT ![Unwrap(handle)] = "aborted"]
    ELSE ts

\* main.rs 248-256: 'q'. The server task is aborted and run_app returns: the
\* App (with its pending queue and message receiver) and the pending receiver
\* are dropped
RECURSIVE DropSinks(_, _)
DropSinks(sk, q) ==
    IF q = <<>> THEN sk
    ELSE DropSinks([sk EXCEPT ![Head(q).owner] = SinkDrop(@)], Tail(q))

KeyQuit ==
    /\ ctl = "input"
    /\ input_mode = "Normal"
    /\ ctl' = "exited"
    /\ sink' = DropSinks(sink, pending_requests \o pendChan)
    /\ pending_requests' = <<>>
    /\ pendChan' = <<>>
    /\ msgChan' = <<>>
    /\ tasks' = AbortHeld(tasks, proxy_server)
    /\ proxy_server' = None
    /\ UNCHANGED <<exchanges, applied, selected_pending, app_mode, shared_mode,
                   mode_lock, has_state, selected_exchange, inputVars, target_url,
                   is_running, hs, upstream, dispatched>>

Controller ==
    \/ Tick
    \/ NoKey \/ KeyPause \/ KeyAllow \/ KeyBlock \/ KeyComplete \/ KeyResume
    \/ KeyEdit \/ KeyDown \/ KeyUp \/ KeyQuit

Handler(h) ==
    \/ HIngress(h) \/ HLock(h) \/ HProbe(h) \/ HPass(h)
    \/ HDecide(h) \/ HTimeout(h) \/ HUpstream(h)

Next == Controller \/ \E h \in Handlers : Handler(h)

Spec == Init /\ [][Next]_vars


\* The scheduler runs every handler task that can take a step: a decision in
\* the sink or the 300 s timer ends the wait, and the call to the target
\* returns in one of the four branches of forward_request.
FairSpec ==
    /\ Spec
    /\ \A h \in Handlers : WF_vars(HDecide(h) \/ HTimeout(h))
    /\ \A h \in Handlers : WF_vars(HUpstream(h))

(***************************************************************************)
(* The program as main.rs builds it (82-125): the proxy has the state, the *)
(* shared mode starts Normal. The operator also edits the headers of       *)
(* pending requests. The loop is followed until the operator quits, and    *)
(* each request until it is answered without the target or handed to the   *)
(* target (whose answer forward_request awaits without a time limit).      *)
(***************************************************************************)
MainInit == Init /\ has_state /\ shared_mode = "Normal"

Operator ==
    \/ Tick
    \/ NoKey \/ KeyPause \/ KeyAllow \/ KeyBlock \/ KeyComplete \/ KeyResume
    \/ KeyEdit \/ KeyHeaders \/ KeyDown \/ KeyUp

Intercept(h) == HIngress(h) \/ HLock(h) \/ HProbe(h) \/ HDecide(h) \/ HTimeout(h)

OperatorNext == Operator \/ \E h \in Handlers : Intercept(h)

OperatorSpec == MainInit /\ [][OperatorNext]_vars

(***************************************************************************)
(* The program of main.rs with an operator who pauses, rewrites the id of  *)
(* pending requests, and allows or blocks them; every request is followed  *)
(* to its reply.                                                           *)
(***************************************************************************)
EditNext ==
    \/ Tick
    \/ NoKey \/ KeyPause \/ KeyAllow \/ KeyBlock \/ KeyEditId
    \/ \E h \in Handlers : Intercept(h) \/ HUpstream(h)

EditSpec == MainInit /\ [][EditNext]_vars

(***************************************************************************)
(* The server task of ProxyServer::start in front of the handlers: every    *)
(* HTTP request passes the route before handle_proxy_request is called.     *)
(***************************************************************************)
\* the HTTP requests clients send: a method, the segments of the path, and
\* whether the body is JSON
HttpRequests ==
    [method : {"POST", "GET", "OPTIONS"}, path : {<<>>, <<"rpc">>}, json : BOOLEAN]

\* mutant of proxy_route: the path is not looked at
proxy_route_any_path(req) == req.method = "POST" /\ req.json

\* proxy.rs 55-58: warp::path::end().and(warp::post()).and(headers_cloned())
\* .and(warp::body::json())
proxy_route(req) == req.path = <<>> /\ req.method = "POST" /\ req.json

\* the status of the reply warp gives a request no route takes: not found,
\* method not allowed (or the answer of the CORS wrapper to a preflight),
\* bad request
RejectionStatuses(req) ==
    IF req.path # <<>> THEN {404}
    ELSE IF req.method = "OPTIONS" THEN {200, 403, 405}
    ELSE IF req.method # "POST" THEN {405}
    ELSE {400}

\* proxy.rs 55-77: a request no route takes is answered by warp; the
\* closure that calls handle_proxy_request does not run
HRejected(h, req) ==
    /\ hs[h].pc = "new"
    /\ \E status \in RejectionStatuses(req) :
         hs' = [hs EXCEPT ![h].pc = "done", ![h].outcome = "rejected",
                             ![h].reply = Some(Reply(status, NoValue))]
    /\ UNCHANGED <<exchanges, applied, msgChan, pendChan, pending_requests,
                   selected_pending, app_mode, shared_mode, mode_lock, has_state, ctl,
                   sink, upstream, dispatched, selected_exchange, inputVars, serverVars>>

\* proxy.rs 55-77: one HTTP request arrives at the server task
HRequestWith(h, req) == IF proxy_route(req) THEN HIngress(h) ELSE HRejected(h, req)

HRequest(h) == \E req \in HttpRequests : HRequestWith(h, req)

RouteNext ==
    \/ Tick
    \/ NoKey \/ KeyPause \/ KeyAllow \/ KeyBlock
    \/ \E h \in Handlers :
          \/ HRequest(h) \/ HLock(h) \/ HProbe(h) \/ HDecide(h) \/ HTimeout(h)
          \/ HUpstream(h)

RouteSpec == MainInit /\ [][RouteNext]_vars

(***************************************************************************)
(* Concurrent calls in Normal mode: each client posts a call with id 1 or   *)
(* 2 and method "a" or "b"; the controller only drains.                     *)
(***************************************************************************)
PairBodies ==
    {JBody(Some(JStr(Str20)), Some(JNum(id)), Some(JStr(<<96 + m>>)), None, None, None) :
        id \in 1..2, m \in 1..2}

HPost(h) == \E body \in PairBodies : HIngressWith(h, body, ClientHeaders)

PairInit == Init /\ shared_mode = "Normal"

PairNext ==
    \/ Tick
    \/ NoKey
    \/ \E h \in Handlers : HPost(h) \/ HLock(h) \/ HProbe(h) \/ HPass(h) \/ HUpstream(h)

PairSpec == PairInit /\ [][PairNext]_vars

\* the same with an operator who also rewrites the params of pending requests
RewriteNext == EditNext \/ KeyEdit

RewriteSpec == MainInit /\ [][RewriteNext]_vars

(***************************************************************************)
(* The proxy after both receivers are gone (run_app has returned before    *)
(* any request came in): every send of a handler fails. The scheduler runs *)
(* every handler task that can take a step.                                *)
(***************************************************************************)
DetachedInit ==
    /\ exchanges = <<>>
    /\ applied = <<>>
    /\ msgChan = <<>>
    /\ pendChan = <<>>
    /\ pending_requests = <<>>
    /\ selected_pending = 0
    /\ app_mode \in {"Normal", "Paused"}
    /\ has_state \in BOOLEAN
    /\ shared_mode \in (IF has_state THEN {"Normal", app_mode} ELSE {"Normal"})
    /\ mode_lock = 0
    /\ ctl = "exited"
    /\ hs = [h \in Handlers |-> FreshHandler]
    /\ sink = [h \in Handlers |-> SinkOf("none", None)]
    /\ upstream = [h \in Handlers |-> <<>>]
    /\ dispatched = [h \in Handlers |-> <<>>]
    /\ selected_exchange = 0
    /\ input_mode = "Normal"
    /\ input_buffer = <<>>
    /\ filter_text = <<>>
    /\ target_url = <<>>
    /\ is_running = TRUE
    /\ proxy_server = None
    /\ tasks = (IF has_state THEN <<"aborted">> ELSE <<>>)

\* no decision can arrive: the step of a handler that acts on one is left out
Detached(h) ==
    HIngress(h) \/ HLock(h) \/ HProbe(h) \/ HPass(h) \/ HTimeout(h) \/ HUpstream(h)

DetachedNext == \E h \in Handlers : Detached(h)

DetachedSpec ==
    /\ DetachedInit /\ [][DetachedNext]_vars
    /\ \A h \in Handlers : WF_vars(Detached(h))

(***************************************************************************)
(* The pending queue under the operator's keys. The start is the program   *)
(* of main.rs after the operator paused it, MaxQueue clients posted the    *)
(* same body, each handler read Paused and waits for its decision, and a   *)
(* tick drained both channels; the handlers stay in their wait from there. *)
(***************************************************************************)
QueueInit ==
    \E body \in Bodies :
        LET ingress == [h \in 1..MaxQueue |-> RequestMessage(body, ClientHeaders, Now(h, 1), h)]
        IN /\ exchanges = add_messages(<<>>, ingress)
           /\ applied = ingress
           /\ msgChan = <<>>
           /\ pendChan = <<>>
           /\ pending_requests = [h \in 1..MaxQueue |-> PendingRequest(h, ingress[h])]
           /\ selected_pending = 0
           /\ app_mode = "Paused"
           /\ has_state = TRUE
           /\ shared_mode = "Paused"
           /\ mode_lock = 0
           /\ ctl = "input"
           /\ hs = [h \in 1..MaxQueue |->
                       [FreshHandler EXCEPT !.pc = "wait", !.body = body,
                                            !.headers = ClientHeaders,
                                            !.request_message = Some(ingress[h]),
                                            !.probed = Some("Paused"), !.enqueued = 1]]
           /\ sink = [h \in 1..MaxQueue |-> SinkOf("open", None)]
           /\ upstream = [h \in 1..MaxQueue |-> <<>>]
           /\ dispatched = [h \in 1..MaxQueue |-> <<>>]
           /\ selected_exchange = 0
           /\ input_mode = "Normal"
           /\ input_buffer = <<>>
           /\ filter_text = <<>>
           /\ target_url = <<>>
           /\ is_running = TRUE
           /\ proxy_server = Some(1)
           /\ tasks = <<"running">>

QueueNext ==
    \/ Tick
    \/ NoKey \/ KeyPause \/ KeyAllow \/ KeyBlock \/ KeyComplete \/ KeyResume
    \/ KeyDown \/ KeyUp

QueueSpec == QueueInit /\ [][QueueNext]_vars

(***************************************************************************)
(* The pending queue of an App in any of the three modes. app_mode is a    *)
(* public field of App (app.rs 85), and the program itself never stores    *)
(* Intercepting in it, so the start is the queue of QueueInit in an App    *)
(* whose mode is any AppMode. The handlers leave their wait on a decision  *)
(* or on the timer.                                                        *)
(***************************************************************************)
ModeInit ==
    \E body \in Bodies, mode \in AppModes :
        LET ingress == [h \in 1..MaxQueue |-> RequestMessage(body, ClientHeaders, Now(h, 1), h)]
        IN /\ exchanges = add_messages(<<>>, ingress)
           /\ applied = ingress
           /\ msgChan = <<>>
           /\ pendChan = <<>>
           /\ pending_requests = [h \in 1..MaxQueue |-> PendingRequest(h, ingress[h])]
           /\ selected_pending = 0
           /\ app_mode = mode
           /\ has_state = TRUE
           /\ shared_mode = "Paused"
           /\ mode_lock = 0
           /\ ctl = "input"
           /\ hs = [h \in 1..MaxQueue |->
                       [FreshHandler EXCEPT !.pc = "wait", !.body = body,
                                            !.headers = ClientHeaders,
                                            !.request_message = Some(ingress[h]),
                                            !.probed = Some("Paused"), !.enqueued = 1]]
           /\ sink = [h \in 1..MaxQueue |-> SinkOf("open", None)]
           /\ upstream = [h \in 1..MaxQueue |-> <<>>]
           /\ dispatched = [h \in 1..MaxQueue |-> <<>>]
           /\ selected_exchange = 0
           /\ input_mode = "Normal"
           /\ input_buffer = <<>>
           /\ filter_text = <<>>
           /\ target_url = <<>>
           /\ is_running = TRUE
           /\ proxy_server = Some(1)
           /\ tasks = <<"running">>

ModeNext ==
    \/ QueueNext
    \/ \E h \in 1..MaxQueue : HDecide(h) \/ HTimeout(h)

ModeSpec == ModeInit /\ [][ModeNext]_vars

(***************************************************************************)
(* The store alone: add_message called directly on App::new(), as the      *)
(* repository's tests do                                                   *)
(***************************************************************************)
Str1 == <<49>>                      \* "1"
StrDirty == <<65, 233, 7, 10>>      \* "A", e-acute, BEL, newline

\* 800 characters of which 515 pass the filter: letters, with e-acute, BEL,
\* DEL, newline and tab strewn in
StrLong ==
    [i \in 1..800 |-> IF i % 5 = 0 THEN 233
                      ELSE IF i % 7 = 0 THEN 7
                      ELSE IF i % 17 = 0 THEN 127
                      ELSE IF i % 11 = 0 THEN 10
                      ELSE IF i % 13 = 0 THEN 9
                      ELSE 97 + (i % 3)]

StoreIds == {None, Some(JNum(1)), Some(JStr(Str1))}

StoreMessages(ts) ==
    {Message(id, Some(StrA), None, None, None, ts, "Request", "Http", None, 0) : id \in StoreIds}
    \cup {Message(Some(JNum(1)), Some(StrOk), None, None, None, ts, "Request", "WebSocket",
                  None, 0)}
    \cup {Message(id, None, None, Some(JStr(StrOk)), None, ts, "Response", "Http", None, 0) :
            id \in StoreIds}
    \cup {Message(id, None, None, None, Some(ErrObj(-32601, "Method not found",
                  Some(JStr(StrDirty)))), ts, "Response", "Http", None, 0) : id \in StoreIds}
    \cup {Message(Some(JNum(1)), None, None, None,
                  Some(ErrObj(-32000, "Server error", data)), ts, "Response", "Http", None, 0) :
            data \in {Some(JStr(StrLong)), Some(JNum(1)), None}}

StoreInit == Init /\ ~has_state /\ shared_mode = "Normal"

StoreAdd ==
    /\ Len(applied) < MaxApplied
    /\ \E m \in StoreMessages(Now(0, Len(applied) + 1)) :
         /\ exchanges' = add_message(exchanges, m)
         /\ applied' = Append(applied, m)
    /\ UNCHANGED <<msgChan, pendChan, pending_requests, selected_pending, app_mode,
                   shared_mode, mode_lock, has_state, selected_exchange, inputVars, serverVars, ctl, hs, sink, upstream, dispatched>>

StoreNext == StoreAdd

StoreSpec == StoreInit /\ [][StoreNext]_vars

(***************************************************************************)
(* The message list browsed: App::new(), add_message and the selection     *)
(* calls of tests/app_tests.rs 46-85; in run_app these are Up and Down in  *)
(* Normal mode with the message list focused (main.rs 267-302)             *)
(***************************************************************************)
\* mutant of select_next: the increment without the modulo
select_next_unwrapped ==
    IF exchanges # <<>>
    THEN selected_exchange' = selected_exchange + 1
    ELSE UNCHANGED selected_exchange

\* app.rs 229-235
select_next ==
    IF exchanges # <<>>
    THEN selected_exchange' = (selected_exchange + 1) % Len(exchanges)
    ELSE UNCHANGED selected_exchange

\* app.rs 237-247
select_previous ==
    IF exchanges # <<>>
    THEN selected_exchange' = (IF selected_exchange = 0 THEN Len(exchanges) - 1
                               ELSE selected_exchange - 1)
    ELSE UNCHANGED selected_exchange

\* main.rs 285-291, app_tests.rs 68-74
BrowseDown ==
    /\ select_next
    /\ UNCHANGED <<exchanges, applied, msgChan, pendChan, pending_requests,
                   selected_pending, app_mode, shared_mode, mode_lock, has_state, ctl,
                   hs, sink, upstream, dispatched, inputVars, serverVars>>

\* main.rs 267-271, app_tests.rs 77-84
BrowseUp ==
    /\ select_previous
    /\ UNCHANGED <<exchanges, applied, msgChan, pendChan, pending_requests,
                   selected_pending, app_mode, shared_mode, mode_lock, has_state, ctl,
                   hs, sink, upstream, dispatched, inputVars, serverVars>>

BrowseNext == StoreAdd \/ BrowseDown \/ BrowseUp

BrowseSpec == StoreInit /\ [][BrowseNext]_vars

(***************************************************************************)
(* The proxy switched off and on over the store: App::new(), add_message   *)
(* and toggle_proxy as in tests/integration_tests.rs 182-221               *)
(***************************************************************************)
\* app.rs 249-251
toggle_proxy == is_running' = ~is_running

ToggleProxy ==
    /\ toggle_proxy
    /\ UNCHANGED <<exchanges, applied, msgChan, pendChan, pending_requests,
                   selected_pending, app_mode, shared_mode, mode_lock, has_state, ctl,
                   hs, sink, upstream, dispatched, selected_exchange, inputVars,
                   target_url, proxy_server, tasks>>

ToggleNext == StoreAdd \/ ToggleProxy

ToggleSpec == StoreInit /\ [][ToggleNext]_vars

(***************************************************************************)
(* The filter input: App::new(), one message added, and the calls of       *)
(* tests/app_tests.rs 257-386 in any order; in run_app these are '/' and,  *)
(* while filtering, Enter, Esc, Backspace and a character (main.rs         *)
(* 181-197, 443-445)                                                       *)
(***************************************************************************)
\* what the operator types: "e" and a blank
InputChars == {101, 32}

\* mutant of apply_filter: the buffer is left as typed
apply_filter_keep ==
    /\ filter_text' = input_buffer
    /\ input_mode' = "Normal"
    /\ input_buffer' = input_buffer

\* app.rs 328-331
start_filtering_requests ==
    /\ input_mode' = "FilteringRequests"
    /\ input_buffer' = <<>>
    /\ UNCHANGED filter_text

\* app.rs 333-336
cancel_filtering ==
    /\ input_mode' = "Normal"
    /\ input_buffer' = <<>>
    /\ UNCHANGED filter_text

\* app.rs 338-342
apply_filter ==
    /\ filter_text' = input_buffer
    /\ input_mode' = "Normal"
    /\ input_buffer' = <<>>

\* app.rs 364-370
handle_input_char(c) ==
    /\ input_buffer' = (IF input_mode \in {"EditingTarget", "FilteringRequests"}
                        THEN Append(input_buffer, c) ELSE input_buffer)
    /\ UNCHANGED <<input_mode, filter_text>>

\* app.rs 372-378: String::pop, nothing on the empty string
handle_backspace ==
    /\ input_buffer' = (IF input_mode \in {"EditingTarget", "FilteringRequests"}
                           /\ input_buffer # <<>>
                        THEN SubSeq(input_buffer, 1, Len(input_buffer) - 1)
                        ELSE input_buffer)
    /\ UNCHANGED <<input_mode, filter_text>>

FilterStart ==
    /\ start_filtering_requests
    /\ UNCHANGED <<exchanges, applied, msgChan, pendChan, pending_requests,
                   selected_pending, app_mode, shared_mode, mode_lock, has_state, ctl,
                   hs, sink, upstream, dispatched, selected_exchange, serverVars>>

FilterCancel ==
    /\ cancel_filtering
    /\ UNCHANGED <<exchanges, applied, msgChan, pendChan, pending_requests,
                   selected_pending, app_mode, shared_mode, mode_lock, has_state, ctl,
                   hs, sink, upstream, dispatched, selected_exchange, serverVars>>

FilterApply ==
    /\ apply_filter
    /\ UNCHANGED <<exchanges, applied, msgChan, pendChan, pending_requests,
                   selected_pending, app_mode, shared_mode, mode_lock, has_state, ctl,
                   hs, sink, upstream, dispatched, selected_exchange, serverVars>>

FilterChar ==
    /\ Len(input_buffer) < MaxInput
    /\ \E c \in InputChars : handle_input_char(c)
    /\ UNCHANGED <<exchanges, applied, msgChan, pendChan, pending_requests,
                   selected_pending, app_mode, shared_mode, mode_lock, has_state, ctl,
                   hs, sink, upstream, dispatched, selected_exchange, serverVars>>

FilterBackspace ==
    /\ handle_backspace
    /\ UNCHANGED <<exchanges, applied, msgChan, pendChan, pending_requests,
                   selected_pending, app_mode, shared_mode, mode_lock, has_state, ctl,
                   hs, sink, upstream, dispatched, selected_exchange, serverVars>>

\* the list the filter is typed over: the first message added
FilterAdd == exchanges = <<>> /\ StoreAdd

FilterNext ==
    \/ FilterAdd
    \/ FilterStart \/ FilterCancel \/ FilterApply \/ FilterChar \/ FilterBackspace

FilterSpec == StoreInit /\ [][FilterNext]_vars

(***************************************************************************)
(* run_app and the server task: the proxy stopped and started, the target  *)
(* edited, the task ending by itself                                       *)
(***************************************************************************)
\* main.rs 494-522: 's'. A running proxy is stopped (the handle taken, its
\* task aborted), a stopped one started (a fresh task spawned, its handle
\* put in place of whatever was held); then the tail of the iteration
KeyServer ==
    /\ ctl = "input"
    /\ input_mode = "Normal"
    /\ is_running \/ Len(tasks) < MaxTasks
    /\ LET stopping == is_running
           ts == IF stopping THEN AbortHeld(tasks, proxy_server)
                 ELSE Append(tasks, "running")
           handle == IF stopping THEN None ELSE Some(Len(tasks) + 1)
       IN /\ tasks' = ts
          /\ proxy_server' = CheckedHandle(handle, ts)
          /\ is_running' = CheckedRunning(handle, ts, ~is_running)
    /\ ctl' = "tick"
    /\ UNCHANGED <<exchanges, applied, msgChan, pendChan, pending_requests,
                   selected_pending, app_mode, shared_mode, mode_lock, has_state,
                   selected_exchange, inputVars, target_url, hs, sink, upstream,
                   dispatched>>

\* app.rs 346-349
start_editing_target ==
    /\ input_mode' = "EditingTarget"
    /\ input_buffer' = <<>>
    /\ UNCHANGED <<filter_text, target_url>>

\* app.rs 351-354
cancel_editing ==
    /\ input_mode' = "Normal"
    /\ input_buffer' = <<>>
    /\ UNCHANGED <<filter_text, target_url>>

\* app.rs 356-362
confirm_target_edit ==
    /\ target_url' = (IF Trim(input_buffer) # <<>> THEN Trim(input_buffer) ELSE target_url)
    /\ input_mode' = "Normal"
    /\ input_buffer' = <<>>
    /\ UNCHANGED filter_text

\* main.rs 440-442: 't'
KeyTarget ==
    /\ ctl = "input"
    /\ input_mode = "Normal"
    /\ start_editing_target
    /\ ServerCheck
    /\ ctl' = "tick"
    /\ UNCHANGED <<exchanges, applied, msgChan, pendChan, pending_requests,
                   selected_pending, app_mode, shared_mode, mode_lock, has_state,
                   selected_exchange, tasks, hs, sink, upstream, dispatched>>

\* main.rs 200-226: Enter while the target is edited. A running proxy is
\* restarted: the handle taken, its task aborted, a fresh task spawned. The
\* iteration ends with continue, before its tail
KeyEnterTarget ==
    /\ ctl = "input"
    /\ input_mode = "EditingTarget"
    /\ is_running => Len(tasks) < MaxTasks
    /\ confirm_target_edit
    /\ IF is_running
       THEN /\ tasks' = Append(AbortHeld(tasks, proxy_server), "running")
            /\ proxy_server' = Some(Len(tasks) + 1)
       ELSE UNCHANGED <<tasks, proxy_server>>
    /\ ctl' = "tick"
    /\ UNCHANGED <<exchanges, applied, msgChan, pendChan, pending_requests,
                   selected_pending, app_mode, shared_mode, mode_lock, has_state,
                   selected_exchange, is_running, hs, sink, upstream, dispatched>>

\* main.rs 227-229: Esc while the target is edited
KeyEscTarget ==
    /\ ctl = "input"
    /\ input_mode = "EditingTarget"
    /\ cancel_editing
    /\ ctl' = "tick"
    /\ UNCHANGED <<exchanges, applied, msgChan, pendChan, pending_requests,
                   selected_pending, app_mode, shared_mode, mode_lock, has_state,
                   selected_exchange, is_running, proxy_server, tasks, hs, sink,
                   upstream, dispatched>>

\* main.rs 230-235: Backspace or a character while the target is edited
KeyTypeTarget ==
    /\ ctl = "input"
    /\ input_mode = "EditingTarget"
    /\ \/ handle_backspace
       \/ Len(input_buffer) < MaxInput /\ \E c \in InputChars : handle_input_char(c)
    /\ ctl' = "tick"
    /\ UNCHANGED <<exchanges, applied, msgChan, pendChan, pending_requests,
                   selected_pending, app_mode, shared_mode, mode_lock, has_state,
                   selected_exchange, serverVars, hs, sink, upstream, dispatched>>

\* proxy.rs 49-92: the server task ends by itself (the port cannot be bound,
\* the server fails)
TaskDies ==
    /\ \E t \in 1..Len(tasks) :
         /\ tasks[t] = "running"
         /\ tasks' = [tasks EXCEPT ![t] = "finished"]
    /\ UNCHANGED <<exchanges, applied, msgChan, pendChan, pending_requests,
                   selected_pending, app_mode, shared_mode, mode_lock, has_state, ctl,
                   selected_exchange, inputVars, target_url, is_running, proxy_server,
                   hs, sink, upstream, dispatched>>

ServerNext ==
    \/ Tick
    \/ NoKey \/ KeyServer \/ KeyTarget \/ KeyEnterTarget \/ KeyEscTarget \/ KeyTypeTarget
    \/ KeyQuit
    \/ TaskDies

ServerSpec == MainInit /\ [][ServerNext]_vars

(***************************************************************************)
(* Properties of the store                                                 *)
(***************************************************************************)
Last(s) == s[Len(s)]
Front(s) == SubSeq(s, 1, Len(s) - 1)

\* replaying a message log with one counter per id: the requests with this id
\* that no response has been paired with yet
RECURSIVE OpenCount(_, _)
OpenCount(log, id) ==
    IF log = <<>> THEN 0
    ELSE LET before == OpenCount(Front(log), id) IN
         IF Last(log).id # id THEN before
         ELSE IF Last(log).direction = "Request" THEN before + 1
         ELSE IF before > 0 THEN before - 1 ELSE 0

\* the responses of the log that found no unfulfilled exchange with their id
RECURSIVE OrphanResponses(_)
OrphanResponses(log) ==
    IF log = <<>> THEN 0
    ELSE OrphanResponses(Front(log))
         + (IF Last(log).direction = "Response" /\ OpenCount(Front(log), Last(log).id) = 0
            THEN 1 ELSE 0)

RequestCount(log) == Cardinality({i \in 1..Len(log) : log[i].direction = "Request"})

\* C1: after any sequence of messages applied to the empty store, the number
\* of exchanges is the number of Requests plus the number of Responses that
\* found no unfulfilled exchange with an equal id when they were applied.
C1_ExchangeCount ==
    Len(exchanges) = RequestCount(applied) + OrphanResponses(applied)

\* the case of C1: a second response for an id whose only request is already
\* answered was appended as a response-only exchange
C1_Witness ==
    /\ Len(applied) = 3
    /\ applied[1].direction = "Request"
    /\ applied[2].direction = "Response" /\ applied[2].id = applied[1].id
    /\ applied[3].direction = "Response" /\ applied[3].id = applied[1].id
    /\ Len(exchanges) = 2
    /\ IsNone(exchanges[2].request)

\* C2: an exchange holding both halves has request.id = response.id = its own
\* id, structurally (1 is not "1", an absent id equals only an absent id).
C2_PairedIdsEqual ==
    \A i \in 1..Len(exchanges) :
        (IsSome(exchanges[i].request) /\ IsSome(exchanges[i].response))
        => /\ Unwrap(exchanges[i].request).id = Unwrap(exchanges[i].response).id
           /\ Unwrap(exchanges[i].request).id = exchanges[i].id

\* the case of C2: a request with id 1 stays unanswered while the later request
\* with id "1" holds the response with id "1"
C2_Witness ==
    /\ Len(exchanges) = 2
    /\ exchanges[1].id = Some(JNum(1)) /\ IsNone(exchanges[1].response)
    /\ exchanges[2].id = Some(JStr(Str1))
    /\ IsSome(exchanges[2].request) /\ IsSome(exchanges[2].response)
    /\ Len(applied) = 3 /\ applied[3].direction = "Response"

\* C3: a Response is absorbed by the highest-index exchange among those with
\* an equal id and no response; every other exchange is left as it was.
C3_LifoPairing ==
    [][(Len(applied') = Len(applied) + 1 /\ Last(applied').direction = "Response")
       => LET m == Last(applied')
              open == {i \in 1..Len(exchanges) :
                          exchanges[i].id = m.id /\ IsNone(exchanges[i].response)}
          IN open # {}
             => /\ Len(exchanges') = Len(exchanges)
                /\ \A i \in 1..Len(exchanges) :
                     IF i \in open /\ \A j \in open : j <= i
                     THEN /\ IsSome(exchanges'[i].response)
                          /\ Unwrap(exchanges'[i].response).timestamp = m.timestamp
                          /\ exchanges'[i].request = exchanges[i].request
                     ELSE exchanges'[i] = exchanges[i]]_vars

\* the case of C3: two requests with one id, then a response with that id: the
\* second exchange holds it, the first is still unanswered
C3_Witness ==
    /\ Len(applied) = 3 /\ Len(exchanges) = 2
    /\ applied[1].direction = "Request" /\ applied[2].direction = "Request"
    /\ applied[3].direction = "Response"
    /\ applied[1].id = applied[3].id /\ applied[2].id = applied[3].id
    /\ IsNone(exchanges[1].response)
    /\ IsSome(exchanges[2].response)

\* C4: a Request appends exactly one exchange at the end, with the message's
\* id, method, transport and timestamp, the request set and no response, and
\* leaves every earlier exchange as it was, whatever ids they carry.
C4_RequestAppends ==
    [][(Len(applied') = Len(applied) + 1 /\ Last(applied').direction = "Request")
       => LET m == Last(applied') IN
          /\ Len(exchanges') = Len(exchanges) + 1
          /\ Front(exchanges') = exchanges
          /\ Last(exchanges').id = m.id
          /\ Last(exchanges').method = m.method
          /\ Last(exchanges').transport = m.transport
          /\ Last(exchanges').timestamp = m.timestamp
          /\ Last(exchanges').request = Some(m)
          /\ Last(exchanges').response = None]_vars

\* the case of C4: a request whose id is that of an earlier, already answered
\* exchange and of an earlier unanswered one was appended as a third exchange
C4_Witness ==
    /\ Len(exchanges) = 3 /\ Len(applied) = 4
    /\ applied[4].direction = "Request"
    /\ exchanges[1].id = exchanges[3].id /\ exchanges[2].id = exchanges[3].id
    /\ IsSome(exchanges[2].response) /\ IsNone(exchanges[1].response)
    /\ IsSome(exchanges[3].request) /\ IsNone(exchanges[3].response)


(***************************************************************************)
(* Properties of the request handler and the controller                    *)
(***************************************************************************)
\* every message sent on the message channel and still observable, in order
Emitted == applied \o msgChan

EmittedResponse(h) ==
    \E i \in 1..Len(Emitted) : Emitted[i].direction = "Response" /\ Emitted[i].src = h

CalledUpstream(h) == upstream[h] # <<>>

\* C5: on every path the Request message of a request is sent on the message
\* channel before its Response message, so the store never applies the
\* Response first.
C5_RequestBeforeResponse ==
    \A j \in 1..Len(Emitted) :
        Emitted[j].direction = "Response"
        => \E i \in 1..(j - 1) :
              Emitted[i].direction = "Request" /\ Emitted[i].src = Emitted[j].src

\* the case of C5: a completed request and a forwarded one, both with their
\* responses applied to the store
C5_Witness ==
    /\ \E h \in Handlers : hs[h].outcome = "Complete" /\ hs[h].pc = "done"
    /\ \E h \in Handlers : hs[h].outcome = "Allow" /\ hs[h].pc = "done"
    /\ Len(applied) = 4 /\ msgChan = <<>>

\* C6: a handler creates a PendingRequest exactly when the mode it read at its
\* probe is Paused; with Normal, Intercepting or no proxy state it forwards
\* the request and creates none.
C6_InterceptIffPaused ==
    \A h \in Handlers :
        IF hs[h].pc \in {"new", "probe", "locked"}
        THEN hs[h].enqueued = 0 /\ sink[h].state = "none"
        ELSE IF has_state /\ hs[h].probed = Some("Paused")
             THEN hs[h].enqueued = 1 /\ hs[h].outcome # "pass" /\ sink[h].state # "none"
             ELSE /\ hs[h].enqueued = 0 /\ sink[h].state = "none"
                  /\ hs[h].outcome = "pass" /\ CalledUpstream(h)
                  /\ h \notin Owners(pendChan) \cup Owners(pending_requests)

\* the case of C6: one handler read Intercepting and forwarded, another read
\* Paused and waits for its decision
C6_Witness ==
    /\ \E h \in Handlers : hs[h].probed = Some("Intercepting") /\ hs[h].outcome = "pass"
    /\ \E h \in Handlers : hs[h].probed = Some("Paused") /\ hs[h].pc = "wait"
                           /\ h \in Owners(pending_requests)

C8_OneDecisionThenGone ==
    \A h \in Handlers :
        /\ Len(dispatched[h]) <= 1
        /\ Len(dispatched[h]) = 1
           => h \notin Owners(pending_requests) \cup Owners(pendChan)

\* the case of C8: one entry was decided and is gone while the other entry is
\* still queued
C8_Witness ==
    \E h, g \in Handlers :
        /\ Len(dispatched[h]) = 1 /\ h \notin Owners(pending_requests)
        /\ Len(dispatched[g]) = 0 /\ g \in Owners(pending_requests)

\* C9: a wait that ends without a decision (timer, or sender dropped) answers
\* HTTP 408 with error -32603 "Request timed out waiting for user decision"
\* echoing the request id; the target is not called, no Response is emitted.
C9_TimeoutReply ==
    /\ [](\A h \in Handlers :
            hs[h].outcome = "timeout"
            => /\ hs[h].pc = "done"
               /\ hs[h].reply =
                    Some([status |-> 408,
                          body |-> JBody(Some(JStr(Str20)),
                                         Some(IF IsSome(hs[h].body.id)
                                              THEN Unwrap(hs[h].body.id) ELSE JNull),
                                         None, None, None,
                                         Some(JObj([code |-> -32603,
                                                    message |-> "Request timed out waiting for user decision",
                                                    data |-> None])))])
               /\ ~CalledUpstream(h)
               /\ ~EmittedResponse(h))
    /\ [][\A h \in Handlers :
            (hs[h].pc = "wait" /\ hs'[h].pc # "wait" /\ sink[h].state # "sent")
            => hs'[h].outcome = "timeout"]_vars

\* the case of C9: a request with id 1 was answered by the timeout path while
\* its entry is still in the controller's queue
C9_Witness ==
    \E h \in Handlers :
        /\ hs[h].outcome = "timeout" /\ hs[h].body.id = Some(JNum(1))
        /\ h \in Owners(pending_requests)

\* C10 as stated: after Block the target got no request, the client got HTTP
\* 200 with error -32603 "Request blocked by user" echoing the id, no Response
\* was emitted and the request's exchange has no response half.
C10_Original ==
    \A h \in Handlers :
        hs[h].outcome = "Block"
        => /\ ~CalledUpstream(h)
           /\ ~EmittedResponse(h)
           /\ \A i \in 1..Len(exchanges) :
                (IsSome(exchanges[i].request) /\ Unwrap(exchanges[i].request).src = h)
                => IsNone(exchanges[i].response)

\* C10 amended: as above, but the exchange of the blocked request may hold a
\* response half when that Response was emitted for another request with an
\* equal id; it never holds one emitted for the blocked request.
C10_BlockNoResponse ==
    \A h \in Handlers :
        hs[h].outcome = "Block"
        => /\ hs[h].pc = "done"
           /\ ~CalledUpstream(h)
           /\ hs[h].reply =
                Some([status |-> 200,
                      body |-> JBody(Some(JStr(Str20)),
                                     Some(IF IsSome(hs[h].body.id)
                                          THEN Unwrap(hs[h].body.id) ELSE JNull),
                                     None, None, None,
                                     Some(JObj([code |-> -32603,
                                                message |-> "Request blocked by user",
                                                data |-> None])))])
           /\ ~EmittedResponse(h)
           /\ \A i \in 1..Len(exchanges) :
                (IsSome(exchanges[i].request) /\ Unwrap(exchanges[i].request).src = h
                 /\ IsSome(exchanges[i].response))
                => /\ Unwrap(exchanges[i].response).src # h
                   /\ Unwrap(exchanges[i].response).id = Unwrap(exchanges[i].request).id

\* the case of C10: every request is answered and every message applied; the
\* exchange of the blocked request is in the store without a response half
C10_Witness ==
    \E h \in Handlers :
        /\ hs[h].outcome = "Block"
        /\ \E i \in 1..Len(exchanges) :
              /\ IsSome(exchanges[i].request) /\ Unwrap(exchanges[i].request).src = h
              /\ IsNone(exchanges[i].response)
        /\ \A g \in Handlers : hs[g].pc = "done"
        /\ msgChan = <<>>

\* the Response messages of handler h that were sent and are still observable
ResponsesOf(h) ==
    {i \in 1..Len(Emitted) : Emitted[i].direction = "Response" /\ Emitted[i].src = h}

\* C11: when the decision for an intercepted request is Complete(response_json)
\* the target receives no request, the client receives HTTP 200 with exactly
\* response_json as body, and one Response message is emitted (none is lost
\* while the controller runs, never two) whose id, result and error are those
\* of response_json and whose headers are x-proxy-completed: true and
\* content-type: application/json.
C11_CompleteReply ==
    \A h \in Handlers :
        hs[h].outcome = "Complete"
        => LET d == dispatched[h][1].decision
               response_json == Unwrap(d.json)
           IN /\ d.kind = "Complete"
              /\ hs[h].pc = "done"
              /\ ~CalledUpstream(h)
              /\ hs[h].reply = Some([status |-> 200, body |-> response_json])
              /\ Cardinality(ResponsesOf(h)) <= 1
              /\ ~Exited => Cardinality(ResponsesOf(h)) = 1
              /\ \A i \in ResponsesOf(h) :
                    /\ Emitted[i].id = response_json.id
                    /\ Emitted[i].result = response_json.result
                    /\ Emitted[i].error = response_json.error
                    /\ IsSome(Emitted[i].headers)
                    /\ DOMAIN Unwrap(Emitted[i].headers) = {Str.proxy_completed, Str.content_type}
                    /\ Unwrap(Emitted[i].headers)[Str.proxy_completed] = Str.true
                    /\ Unwrap(Emitted[i].headers)[Str.content_type] = Str.app_json

\* the case of C11: one request completed with a result and one with an
\* error, both Responses applied to the store
C11_Witness ==
    /\ \E h \in Handlers, i \in 1..Len(applied) :
          /\ hs[h].outcome = "Complete" /\ applied[i].src = h
          /\ applied[i].direction = "Response" /\ IsSome(applied[i].result)
    /\ \E h \in Handlers, i \in 1..Len(applied) :
          /\ hs[h].outcome = "Complete" /\ applied[i].src = h
          /\ applied[i].direction = "Response" /\ IsSome(applied[i].error)

\* the decision handler h acted upon
DecisionOf(h) == dispatched[h][1].decision

\* the answer of handler h is the one forward_request gives for the body and
\* some answer u of the target to it
ForwardedResult(h, body) ==
    \E u \in UpstreamResponses(body) :
        /\ hs[h].reply = Some(ForwardReply(body, u))
        /\ \A i \in ResponsesOf(h) : Emitted[i] = ForwardMessage(body, u, Now(h, 2), h)

\* C12: a request intercepted and decided with Allow(None, None) reaches the
\* target with the body and the forwarded headers the pass-through path sends
\* for it (the ones a request with the same body and headers that was not
\* intercepted did send), and its client reply and Response message are the
\* ones the pass-through path gives for the same answer of the target.
C12_AllowAsPassThrough ==
    \A h \in Handlers :
        (hs[h].outcome = "Allow" /\ DecisionOf(h) = Allow(None, None))
        => /\ Len(upstream[h]) = 1
           /\ upstream[h][1].body = hs[h].body
           /\ upstream[h][1].headers = ForwardedHeaders(hs[h].headers)
           /\ \A g \in Handlers :
                 (hs[g].outcome = "pass" /\ hs[g].body = hs[h].body
                  /\ hs[g].headers = hs[h].headers)
                 => /\ upstream[g] = upstream[h]
                    /\ hs[g].pc = "done" => ForwardedResult(g, hs[h].body)
           /\ hs[h].pc = "done" => ForwardedResult(h, hs[h].body)

\* the case of C12: a request released unchanged and a request with the same
\* body that was never intercepted, both answered by the target
C12_Witness ==
    \E h, g \in Handlers :
        /\ hs[h].outcome = "Allow" /\ DecisionOf(h) = Allow(None, None)
        /\ hs[g].outcome = "pass" /\ hs[g].body = hs[h].body
        /\ hs[h].pc = "done" /\ hs[g].pc = "done"
        /\ hs[h].reply = hs[g].reply

\* the hop-by-hop names that are never forwarded
Denied == {Str.host, Str.content_length, Str.transfer_encoding, Str.connection}

\* an entry of the operator's mapping that the http library takes as a header
Usable(m, k) == IsSome(HeaderNameFromBytes(k)) /\ IsSome(HeaderValueFromStr(m[k]))

\* C13 as stated: the target receives the supplied body, else the original;
\* with a supplied mapping the forwarded headers are exactly the entries of
\* that mapping (names in lower case, less the hop-by-hop names), else the
\* original headers.
C13_Original ==
    \A h \in Handlers :
        hs[h].outcome = "Allow"
        => LET d == DecisionOf(h)
               fwd == upstream[h][1].headers
           IN /\ upstream[h][1].body = (IF IsSome(d.json) THEN Unwrap(d.json) ELSE hs[h].body)
              /\ IF IsSome(d.headers)
                 THEN LET m == Unwrap(d.headers) IN
                      /\ \A k \in DOMAIN m :
                            Lower(k) \notin Denied
                            => Lower(k) \in DOMAIN fwd /\ fwd[Lower(k)] = m[k]
                      /\ \A n \in DOMAIN fwd : \E k \in DOMAIN m : Lower(k) = n
                 ELSE fwd = ForwardedHeaders(hs[h].headers)

\* C13 amended: the target receives the supplied body, else the original; with
\* a supplied mapping the forwarded headers come from that mapping alone (no
\* original header absent from it is forwarded): one header for each name,
\* compared without case, under which the mapping has an entry with a valid
\* HTTP header name and value (less the hop-by-hop names), carrying the value
\* of such an entry; entries with an invalid name or value are left out.
\* Without a mapping the original headers are forwarded.
C13_AllowSubstitutes ==
    \A h \in Handlers :
        hs[h].outcome = "Allow"
        => LET d == DecisionOf(h)
               fwd == upstream[h][1].headers
           IN /\ d.kind = "Allow"
              /\ Len(upstream[h]) = 1
              /\ upstream[h][1].body = (IF IsSome(d.json) THEN Unwrap(d.json) ELSE hs[h].body)
              /\ IF IsSome(d.headers)
                 THEN LET m == Unwrap(d.headers) IN
                      /\ DOMAIN fwd = {Lower(k) : k \in {x \in DOMAIN m : Usable(m, x)}} \ Denied
                      /\ \A n \in DOMAIN fwd :
                            \E k \in DOMAIN m : Usable(m, k) /\ Lower(k) = n /\ fwd[n] = m[k]
                 ELSE /\ DOMAIN fwd = DOMAIN hs[h].headers \ Denied
                      /\ \A n \in DOMAIN fwd : fwd[n] = hs[h].headers[n]

\* the case of C13: a request released with an edited body and the mixed
\* header mapping (the target got the edited body and the header x-a alone),
\* and a request released with the empty mapping and its original body
C13_Witness ==
    /\ \E h \in Handlers :
          /\ hs[h].outcome = "Allow"
          /\ IsSome(DecisionOf(h).json) /\ IsSome(DecisionOf(h).headers)
          /\ upstream[h][1].body = Unwrap(DecisionOf(h).json)
          /\ upstream[h][1].body # hs[h].body
          /\ DOMAIN upstream[h][1].headers = {<<120, 45, 97>>}
          /\ Cardinality(DOMAIN Unwrap(DecisionOf(h).headers)) = 5
    /\ \E h \in Handlers :
          /\ hs[h].outcome = "Allow"
          /\ IsNone(DecisionOf(h).json) /\ DecisionOf(h).headers = Some(NoHeaders)
          /\ upstream[h][1].headers = NoHeaders

\* C14: no request sent to the target carries a header named host,
\* content-length, transfer-encoding or connection (in any case) taken from
\* the incoming headers or from the operator's mapping; every other header of
\* the final header map is forwarded with its value.
C14_DeniedHeadersDropped ==
    \A h \in Handlers : \A c \in 1..Len(upstream[h]) :
        LET fwd == upstream[h][c].headers
            operator == hs[h].outcome = "Allow" /\ IsSome(DecisionOf(h).headers)
        IN /\ \A n \in DOMAIN fwd : Lower(n) \notin Denied
           /\ ~operator
              => \A n \in DOMAIN hs[h].headers :
                    Lower(n) \notin Denied => n \in DOMAIN fwd /\ fwd[n] = hs[h].headers[n]
           /\ operator
              => LET m == Unwrap(DecisionOf(h).headers) IN
                 \A k \in DOMAIN m :
                    (Usable(m, k) /\ Lower(k) \notin Denied) => Lower(k) \in DOMAIN fwd

\* the case of C14: a request released with the operator's mapping, which
\* names Host in capitals, and a request passed through whose client sent
\* host; the target got neither, and got the other headers
C14_Witness ==
    /\ \E h \in Handlers :
          /\ hs[h].outcome = "Allow" /\ IsSome(DecisionOf(h).headers)
          /\ <<72, 111, 115, 116>> \in DOMAIN Unwrap(DecisionOf(h).headers)
          /\ DOMAIN upstream[h][1].headers = {<<120, 45, 97>>}
    /\ \E h \in Handlers :
          /\ hs[h].outcome = "pass" /\ Str.host \in DOMAIN hs[h].headers
          /\ DOMAIN upstream[h][1].headers = {Str.content_type}

\* C15: after resume_all_requests, from any reachable state of the
\* controller, the pending queue is empty, selected_pending is 0 and app_mode
\* is Normal.
C15_ResumeResets ==
    [][resume_all_requests
       => (pending_requests' = <<>> /\ selected_pending' = 0 /\ app_mode' = "Normal")]_vars

\* the case of C15: resume_all_requests has just released two entries, one of
\* them edited; the queue is empty, the selection 0 and the mode Normal
C15_Witness ==
    /\ \A h \in Handlers : sink[h] = SinkOf("sent", Some(Allow(None, None)))
    /\ \E h \in Handlers : IsSome(dispatched[h][1].unused)
    /\ pending_requests = <<>> /\ selected_pending = 0 /\ app_mode = "Normal"

\* C16: resume_all_requests sends Allow(None, None) to every entry of the
\* pending queue, whatever modified body or modified headers the entry holds,
\* and a request released that way reaches the target with its original body
\* and its original headers.
C16_ResumeSendsOriginal ==
    /\ [][resume_all_requests
          => \A i \in 1..Len(pending_requests) :
                LET owner == pending_requests[i].owner IN
                /\ Len(dispatched'[owner]) = Len(dispatched[owner]) + 1
                /\ Last(dispatched'[owner]).decision =
                      [kind |-> "Allow", json |-> None, headers |-> None]
                /\ sink[owner].state = "open"
                   => sink'[owner] =
                        [state |-> "sent",
                         value |-> Some([kind |-> "Allow", json |-> None, headers |-> None])]]_vars
    /\ [](\A h \in Handlers :
            (hs[h].outcome = "Allow" /\ IsSome(dispatched[h][1].unused))
            => /\ Len(upstream[h]) = 1
               /\ upstream[h][1].body = hs[h].body
               /\ DOMAIN upstream[h][1].headers = DOMAIN hs[h].headers \ Denied
               /\ \A n \in DOMAIN upstream[h][1].headers :
                     upstream[h][1].headers[n] = hs[h].headers[n])

\* the case of C16: two entries resumed together, one holding an edited body
\* and an edited header mapping; its request reached the target unedited
C16_Witness ==
    /\ \A h \in Handlers : Len(dispatched[h]) = 1 /\ DecisionOf(h) = Allow(None, None)
    /\ \E h \in Handlers :
          /\ hs[h].outcome = "Allow"
          /\ IsSome(dispatched[h][1].unused)
          /\ IsSome(Unwrap(dispatched[h][1].unused).modified_request)
          /\ IsSome(Unwrap(dispatched[h][1].unused).modified_headers)
          /\ upstream[h][1].body = hs[h].body

\* every text the editor may hand to apply_edited_json
AllEditTexts ==
    UNION {EditTexts(PendingRequest(1, RequestMessage(b, ClientHeaders, Now(1, 1), 1))) :
              b \in Bodies}
    \cup {Pretty(JsonText([RequestBody(Some(JNum(1)), None) EXCEPT !.method = Some(JNull)]))}

\* C17: apply_edited_json returns an error and leaves every field of every
\* pending entry unchanged when no entry is selected, the text is not JSON,
\* its jsonrpc member is not the string "2.0" or its method member is
\* missing; otherwise it returns Ok and stores the text verbatim as the
\* modified body of the selected entry, and changes nothing else.
C17_EditValidated ==
    \A text \in AllEditTexts :
        LET q == pending_requests
            sel == selected_pending
            ret == EditResult(q, sel, text)
            after == EditedQueue(q, sel, text)
            rejected == \/ sel >= Len(q)
                        \/ ~text.ok
                        \/ text.value.jsonrpc # Some([t |-> "str", v |-> <<50, 46, 48>>])
                        \/ text.value.method = None
        IN IF rejected
           THEN ~ret.ok /\ after = q
           ELSE /\ ret = Ok
                /\ Len(after) = Len(q)
                /\ after[sel + 1].modified_request = Some(text)
                /\ after[sel + 1].modified_headers = q[sel + 1].modified_headers
                /\ after[sel + 1].original_request = q[sel + 1].original_request
                /\ after[sel + 1].owner = q[sel + 1].owner
                /\ \A j \in 1..Len(q) : j # sel + 1 => after[j] = q[j]

\* the case of C17: the second of two entries is selected and holds the text
\* the operator saved, in the operator's layout; the first entry, which has
\* an edited header mapping, holds no modified body
C17_Witness ==
    /\ Len(pending_requests) = 2 /\ selected_pending = 1
    /\ IsSome(pending_requests[2].modified_request)
    /\ Unwrap(pending_requests[2].modified_request).raw = "pretty"
    /\ Unwrap(pending_requests[2].modified_request).value.params = Some(JNum(2))
    /\ IsNone(pending_requests[1].modified_request)
    /\ IsSome(pending_requests[1].modified_headers)

\* every text the editor may hand to complete_selected_request
AllCompleteTexts ==
    UNION {CompleteTexts(PendingRequest(1, RequestMessage(b, ClientHeaders, Now(1, 1), 1))) :
              b \in Bodies}

\* the validation of complete_selected_request refuses the text
CompleteRejected(text) ==
    \/ selected_pending >= Len(pending_requests)
    \/ ~text.ok
    \/ text.value.jsonrpc # Some([t |-> "str", v |-> <<50, 46, 48>>])
    \/ text.value.id = None
    \/ (text.value.result = None /\ text.value.error = None)
    \/ (text.value.result # None /\ text.value.error # None)

\* C18: complete_selected_request returns an error, sends no decision and
\* leaves the pending queue and the selection unchanged when no entry is
\* selected or the text fails validation (not JSON, jsonrpc not "2.0", id
\* missing, neither or both of result and error); otherwise it returns Ok,
\* sends Complete(parsed) to the selected entry and removes that entry alone.
C18_CompleteValidated ==
    /\ [](\A text \in AllCompleteTexts :
            LET ret == CompleteResult(pending_requests, selected_pending, text)
            IN IF CompleteRejected(text) THEN ~ret.ok ELSE ret = Ok)
    /\ [][\A text \in AllCompleteTexts :
            complete_selected_request(text)
            => IF CompleteRejected(text)
               THEN UNCHANGED <<pending_requests, selected_pending, sink, dispatched>>
               ELSE LET q == pending_requests
                        sel == selected_pending
                        owner == q[sel + 1].owner
                        sent == [kind |-> "Complete", json |-> Some(text.value),
                                 headers |-> None]
                    IN /\ Len(pending_requests') = Len(q) - 1
                       /\ \A j \in 1..sel : pending_requests'[j] = q[j]
                       /\ \A j \in (sel + 1)..(Len(q) - 1) : pending_requests'[j] = q[j + 1]
                       /\ Len(dispatched'[owner]) = Len(dispatched[owner]) + 1
                       /\ Last(dispatched'[owner]).decision = sent
                       /\ \A h \in Handlers \ {owner} :
                             dispatched'[h] = dispatched[h] /\ sink'[h] = sink[h]
                       /\ sink[owner].state = "open"
                          => sink'[owner] = [state |-> "sent", value |-> Some(sent)]]_vars

\* the case of C18: of two pending entries the one completed with a custom
\* response is gone and its handler holds the decision; the other is queued
C18_Witness ==
    \E h, g \in Handlers :
        /\ Len(dispatched[h]) = 1 /\ DecisionOf(h).kind = "Complete"
        /\ sink[h].state = "sent" /\ sink[h].value = Some(DecisionOf(h))
        /\ h \notin Owners(pending_requests)
        /\ g \in Owners(pending_requests) /\ dispatched[g] = <<>>

\* the decision C19 expects for an entry
ExpectedAllow(pending) ==
    [kind |-> "Allow",
     json |-> IF pending.modified_request # None /\ pending.modified_request[1].ok
              THEN Some(pending.modified_request[1].value)
              ELSE None,
     headers |-> pending.modified_headers]

\* C19: allow_selected_request sends an Allow decision to the selected entry:
\* Allow(Some(parsed), modified_headers) when a modified body exists and
\* parses as JSON, Allow(None, modified_headers) when there is no modified
\* body or it does not parse.
C19_AllowSelected ==
    /\ [][(allow_selected_request /\ selected_pending < Len(pending_requests))
          => LET pending == pending_requests[selected_pending + 1]
                 owner == pending.owner
             IN /\ Len(dispatched'[owner]) = Len(dispatched[owner]) + 1
                /\ Last(dispatched'[owner]).decision = ExpectedAllow(pending)
                /\ sink[owner].state = "open"
                   => sink'[owner] = [state |-> "sent",
                                      value |-> Some(ExpectedAllow(pending))]
                /\ \A h \in Handlers \ {owner} :
                      dispatched'[h] = dispatched[h] /\ sink'[h] = sink[h]]_vars
    /\ [](\A i \in 1..Len(pending_requests) :
            \A body \in {None} \cup {Some(text) : text \in AllEditTexts} :
                LET pending == [pending_requests[i] EXCEPT !.modified_request = body]
                IN AllowDecision(pending) = ExpectedAllow(pending))

\* the cases of C19: one handler was allowed with an edited body and edited
\* headers, another with edited headers and no edited body
C19_Witness ==
    \E h, g \in Handlers :
        /\ Len(dispatched[h]) = 1 /\ DecisionOf(h).kind = "Allow"
        /\ DecisionOf(h).json # None /\ DecisionOf(h).headers # None
        /\ dispatched[h][1].unused = None
        /\ Len(dispatched[g]) = 1 /\ DecisionOf(g).kind = "Allow"
        /\ DecisionOf(g).json = None /\ DecisionOf(g).headers # None
        /\ dispatched[g][1].unused = None

\* header texts checked beyond those the model saves: CRLF endings with a
\* repeated name, a comment that holds a colon and a value that holds one, a
\* blank line of spaces and an indented comment, a line without a colon
\* before a good one, and a comment without a colon
AllHeaderTexts ==
    HeaderTexts
    \cup {<<120, 45, 97, 58, 32, 49, 13, 10, 120, 45, 97, 58, 32, 50, 13, 10>>,
          <<35, 120, 58, 32, 121, 10, 97, 58, 98, 58, 99>>,
          <<32, 32, 10, 9, 35, 32, 99, 10>>,
          <<98, 97, 100, 10, 120, 58, 32, 49>>,
          <<120, 58, 32, 49, 10, 35, 110, 111, 99, 111, 108, 111, 110, 10>>}

\* a trimmed line that is neither empty nor a comment
IsHeaderLine(line) == line # <<>> /\ line[1] # 35

\* the trimmed lines of a text that are not skipped
KeptLines(text) ==
    SelectSeq([i \in 1..Len(Lines(text)) |-> Trim(Lines(text)[i])], IsHeaderLine)

HasColon(line) == \E i \in 1..Len(line) : line[i] = 58

\* the text before and after the first colon of a line, trimmed
KeyOf(line) ==
    LET c == CHOOSE i \in 1..Len(line) : line[i] = 58 /\ \A j \in 1..(i - 1) : line[j] # 58
    IN Trim(SubSeq(line, 1, c - 1))
ValueOf(line) ==
    LET c == CHOOSE i \in 1..Len(line) : line[i] = 58 /\ \A j \in 1..(i - 1) : line[j] # 58
    IN Trim(SubSeq(line, c + 1, Len(line)))

\* the pairs of a text whose kept lines all hold a colon: one per name that
\* is not empty, with the value of the last line of that name
ParsedPairs(text) ==
    LET k == KeptLines(text)
        named == {i \in 1..Len(k) : KeyOf(k[i]) # <<>>}
    IN [n \in {KeyOf(k[i]) : i \in named} |->
           ValueOf(k[CHOOSE i \in named :
                        KeyOf(k[i]) = n /\ \A j \in named : KeyOf(k[j]) = n => j <= i])]

\* what C20 expects of each text: the first kept line without a colon, if
\* there is one, and the parsed pairs otherwise
ExpectedHeaders ==
    [text \in AllHeaderTexts |->
        LET k == KeptLines(text)
            bad == {i \in 1..Len(k) : ~HasColon(k[i])}
        IN IF bad # {}
           THEN [refused |-> TRUE, line |-> k[CHOOSE i \in bad : \A j \in bad : i <= j],
                 pairs |-> NoHeaders]
           ELSE [refused |-> FALSE, line |-> <<>>, pairs |-> ParsedPairs(text)]]

\* C20: apply_edited_headers skips empty lines and lines that start with '#';
\* if a remaining line has no ':' it returns an error (naming the line) and
\* leaves the selected entry's modified headers unchanged; otherwise it
\* overwrites them with exactly the parsed pairs: an empty mapping is allowed
\* and replaces any previous mapping rather than merging with it.
C20_HeadersParsed ==
    \A text \in AllHeaderTexts :
        LET q == pending_requests
            sel == selected_pending
            ret == HeadersResult(q, sel, text)
            after == HeadersQueue(q, sel, text)
            expected == ExpectedHeaders[text]
        IN IF sel >= Len(q) THEN ~ret.ok /\ after = q
           ELSE IF expected.refused
           THEN /\ ~ret.ok
                /\ ret.arg = expected.line
                /\ after = q
           ELSE /\ ret = Ok
                /\ after = [q EXCEPT ![sel + 1].modified_headers = Some(expected.pairs)]

\* the cases of C20: one entry holds the empty mapping and another the five
\* pairs of the mixed text (denied name, both spellings of x-a, the name with
\* a space and the value with a control character), while the text with a
\* line without a colon is refused for the selected entry
C20_Witness ==
    /\ \E i, j \in 1..Len(pending_requests) :
          /\ pending_requests[i].modified_headers = Some(NoHeaders)
          /\ pending_requests[j].modified_headers # None
          /\ DOMAIN pending_requests[j].modified_headers[1]
               = {<<72, 111, 115, 116>>, <<120, 45, 97>>, <<88, 45, 65>>,
                  <<98, 97, 100, 32, 110, 97, 109, 101>>, <<120, 45, 98>>}
          /\ pending_requests[j].modified_headers[1][<<120, 45, 98>>] = <<7>>
    /\ selected_pending < Len(pending_requests)
    /\ HeadersResult(pending_requests, selected_pending, HeaderTextNoColon)
         = [ok |-> FALSE, msg |-> "Invalid header format",
            arg |-> <<110, 111, 99, 111, 108, 111, 110>>]

\* a step of the controller that takes the selected entry out of the pending
\* queue and sends its handler a decision
RemovesSelected ==
    /\ ctl = "input"
    /\ selected_pending < Len(pending_requests)
    /\ pending_requests' = RemoveAt(pending_requests, selected_pending)
    /\ LET owner == pending_requests[selected_pending + 1].owner
       IN Len(dispatched'[owner]) = Len(dispatched[owner]) + 1

\* C21: when allow_selected_request, block_selected_request or
\* complete_selected_request removes the selected pending entry,
\* selected_pending goes down by one exactly when it is greater than 0 and no
\* longer less than the new queue length; in every other case it keeps its
\* value.
C21_SelectionAfterRemoval ==
    [][RemovesSelected
       => selected_pending' =
             IF selected_pending > 0 /\ selected_pending >= Len(pending_requests')
             THEN selected_pending - 1
             ELSE selected_pending]_vars

\* the case of C21: the last of three entries was selected and removed; the
\* two before it are still queued and the selection moved to the new last
C21_Witness ==
    /\ Len(pending_requests) = 2
    /\ pending_requests[1].owner = 1 /\ pending_requests[2].owner = 2
    /\ Len(dispatched[3]) = 1
    /\ selected_pending = 1

\* the reply of handler h is an error envelope the proxy built itself:
\* blocked, timed out, or one of the three failures of the call to the target
\* (the targets of the model answer with a result when they answer in JSON)
EngineErrorReply(h) ==
    /\ hs[h].reply # None
    /\ \/ hs[h].outcome \in {"Block", "timeout"}
       \/ hs[h].outcome \in {"pass", "Allow"} /\ hs[h].reply[1].body.error # None

\* C22: every JSON-RPC error reply the proxy itself produces (blocked, timed
\* out, connection failure, read failure, body that is not JSON) carries
\* jsonrpc "2.0" and the id of the request as the client sent it, also when
\* the request was intercepted and allowed with an edited body.
C22_ErrorReplyOriginalId ==
    \A h \in Handlers :
        EngineErrorReply(h)
        => /\ hs[h].reply[1].body.jsonrpc = Some([t |-> "str", v |-> <<50, 46, 48>>])
           /\ hs[h].reply[1].body.id
                = Some(IF hs[h].body.id # None THEN hs[h].body.id[1]
                       ELSE [t |-> "null", v |-> 0])

\* handler h was answered by the target with a body that is not JSON
MalformedCase(h) ==
    /\ hs[h].reply # None
    /\ hs[h].outcome \in {"pass", "Allow"}
    /\ hs[h].reply[1].body.error # None
    /\ hs[h].reply[1].body.error[1].v.code = -32700

\* the Response messages of a malformed answer carry the full diagnostic
FullDiagnostic(h) ==
    /\ ~Exited => ResponsesOf(h) # {}
    /\ \A i \in ResponsesOf(h) :
          /\ Emitted[i].error # None
          /\ Emitted[i].error[1].v.code = -32700
          /\ Emitted[i].error[1].v.data # None
          /\ DOMAIN Emitted[i].error[1].v.data[1].v
               = {"issue_type", "content_type", "response_preview", "response_length",
                  "has_null_bytes", "parse_error", "target_url"}

\* C23 as stated: when the body of the target's answer is not valid JSON, the
\* client reply is HTTP 200 with a JSON-RPC error envelope of code -32700 that
\* has no data member, while the Response message emitted to the store
\* carries the diagnostic data.
C23_Original ==
    \A h \in Handlers :
        MalformedCase(h)
        => /\ hs[h].reply[1].status = 200
           /\ hs[h].reply[1].body.error[1].v.data = None
           /\ FullDiagnostic(h)

\* C23, amended: when the body of the target's answer is not valid JSON, the
\* client reply is HTTP 200 with a JSON-RPC error envelope of code -32700
\* whose data member holds issue_type, content_type and has_null_bytes and
\* nothing else, with the values of the Response message emitted to the
\* store, which carries the full diagnostic data (also response_preview,
\* response_length, parse_error and target_url).
C23_MalformedReply ==
    \A h \in Handlers :
        MalformedCase(h)
        => /\ hs[h].reply[1].status = 200
           /\ hs[h].reply[1].body.jsonrpc = Some([t |-> "str", v |-> <<50, 46, 48>>])
           /\ hs[h].reply[1].body.result = None
           /\ hs[h].reply[1].body.error[1].v.data # None
           /\ LET data == hs[h].reply[1].body.error[1].v.data[1].v
              IN /\ DOMAIN data = {"issue_type", "content_type", "has_null_bytes"}
                 /\ data.issue_type = "html_response"
                 /\ data.content_type = Str.text_html
                 /\ data.has_null_bytes = FALSE
                 /\ \A i \in ResponsesOf(h) :
                       \A f \in DOMAIN data : Emitted[i].error[1].v.data[1].v[f] = data[f]
           /\ FullDiagnostic(h)

\* the case of C23: a request allowed by the operator and one passed through
\* were both answered with an HTML page, and both diagnostics are in the store
C23_Witness ==
    \E h, g \in Handlers :
        /\ MalformedCase(h) /\ hs[h].outcome = "Allow"
        /\ MalformedCase(g) /\ hs[g].outcome = "pass"
        /\ \E i, j \in 1..Len(applied) :
              /\ applied[i].src = h /\ applied[i].direction = "Response"
              /\ applied[j].src = g /\ applied[j].direction = "Response"

IsRequestMessage(m) == m.direction = "Request"
HoldsRequest(e) == e.request # None

\* the Request messages of the exchanges of the store, in store order
StoredRequests ==
    LET created == SelectSeq(exchanges, HoldsRequest)
    IN [i \in 1..Len(created) |-> created[i].request[1]]

IsPrefix(s, t) == Len(s) <= Len(t) /\ SubSeq(t, 1, Len(s)) = s

\* C24: for any interleaving of the handler tasks, the exchanges created by
\* requests stand in the store in the order in which the handlers sent their
\* Request messages at ingress: a send puts the message behind all sent
\* before (a send refused because the controller has quit adds nothing), the
\* channel keeps that order until the controller quits, and the drain
\* applies the messages in channel order.
C24_StoreOrderIsIngressOrder ==
    /\ [](StoredRequests = SelectSeq(applied, IsRequestMessage))
    /\ [][\A h \in Handlers :
            HIngress(h) => Emitted' = (IF Exited THEN Emitted
                                       ELSE Append(Emitted, hs'[h].request_message[1]))]_vars
    /\ [][ctl' # "exited" => IsPrefix(Emitted, Emitted')]_vars
    /\ [][Tick => applied' = Emitted /\ Emitted' = Emitted]_vars

\* the case of C24: the request of handler 2 reached the channel before the
\* request of handler 1 and the Response of handler 2 between them; after
\* the drain the store holds the two requests in that order
C24_Witness ==
    /\ Len(applied) >= 3
    /\ applied[1].src = 2 /\ applied[1].direction = "Request"
    /\ applied[2].src = 2 /\ applied[2].direction = "Response"
    /\ applied[3].src = 1 /\ applied[3].direction = "Request"
    /\ Len(StoredRequests) = 2
    /\ StoredRequests[1].src = 2 /\ StoredRequests[2].src = 1

\* C25 as stated: on every controller tick the shared app-mode slot is set
\* to the controller's current app_mode.
C25_Original == [][Tick => shared_mode' = app_mode]_vars

\* C25, amended: a controller tick that finds the mutex of the shared slot
\* free sets the slot to the controller's current app_mode, and a tick during
\* which a handler holds the mutex leaves the slot as it was; nothing else
\* writes the slot and only a key changes app_mode, so after a mode change
\* the slot equals the new mode from the end of the first tick that finds
\* the mutex free, and a handler that probes reads the slot as it is then.
C25_TickSyncsMode ==
    /\ [][Tick => shared_mode' = (IF mode_lock = 0 THEN app_mode ELSE shared_mode)]_vars
    /\ [][shared_mode' # shared_mode => Tick]_vars
    /\ [][app_mode' # app_mode => ctl = "input" /\ shared_mode' = shared_mode]_vars
    /\ [][\A h \in Handlers : HProbe(h) => hs'[h].probed = Some(shared_mode)]_vars

\* the case of C25: the operator paused, the tick that followed found the
\* mutex held by a handler and left the slot at Normal
C25_Witness ==
    /\ ctl = "input"
    /\ app_mode = "Paused"
    /\ shared_mode = "Normal"
    /\ mode_lock # 0

\* the PendingRequests of handler h on their way to or in the pending queue
EntriesOf(h) ==
    {i \in 1..Len(pendChan \o pending_requests) : (pendChan \o pending_requests)[i].owner = h}

\* handler h has read the mode (or found no proxy state) and taken its path
PathTaken(h) == hs[h].pc \in {"wait", "upstream", "done"}

\* C26: each request takes exactly one of two paths, fixed by its single read
\* of the mode: it is enqueued as a PendingRequest exactly once, or it is
\* forwarded without ever being enqueued; a mode change after the read never
\* moves the request to the other path.
C26_OnePathPerRequest ==
    /\ [](\A h \in Handlers :
            /\ Cardinality(EntriesOf(h)) <= hs[h].enqueued
            /\ hs[h].enqueued <= 1
            /\ ~PathTaken(h) => hs[h].enqueued = 0 /\ ~CalledUpstream(h)
            /\ PathTaken(h)
               => IF has_state /\ hs[h].probed = Some("Paused")
                  THEN /\ hs[h].enqueued = 1
                       /\ hs[h].outcome # "pass"
                       /\ CalledUpstream(h) => hs[h].outcome = "Allow"
                       /\ (dispatched[h] = <<>> /\ ~Exited)
                          => Cardinality(EntriesOf(h)) = 1
                  ELSE /\ hs[h].enqueued = 0
                       /\ hs[h].outcome = "pass"
                       /\ CalledUpstream(h)
                       /\ dispatched[h] = <<>>
                       /\ sink[h].state = "none")
    /\ [][\A h \in Handlers :
            /\ hs[h].probed # None => hs'[h].probed = hs[h].probed
            /\ PathTaken(h)
               => /\ PathTaken(h)'
                  /\ hs'[h].enqueued = hs[h].enqueued
                  /\ (hs'[h].outcome = "pass") = (hs[h].outcome = "pass")
                  /\ Cardinality(EntriesOf(h)') <= Cardinality(EntriesOf(h))]_vars

\* the case of C26: one request was read as Paused and waits in the queue,
\* the other was read as Normal and awaits the target without having been
\* enqueued, although the operator has paused since and the slot says Paused
C26_Witness ==
    \E h, g \in Handlers :
        /\ hs[h].pc = "wait" /\ hs[h].probed = Some("Paused")
        /\ h \in Owners(pending_requests)
        /\ hs[g].pc = "upstream" /\ hs[g].probed = Some("Normal")
        /\ hs[g].outcome = "pass" /\ EntriesOf(g) = {}
        /\ app_mode = "Paused" /\ shared_mode = "Paused"

Clean(c) == c \in 32..126 \/ c = 10 \/ c = 9

\* for each string the store's inputs carry as error.data: its characters at
\* the first 500 clean positions, in order
ExpectedData ==
    [d \in {StrDirty, StrLong} |->
        LET at == SelectSeq([i \in 1..Len(d) |-> i], LAMBDA i : Clean(d[i]))
        IN [k \in 1..(IF Len(at) < 500 THEN Len(at) ELSE 500) |-> d[at[k]]]]

\* the message C28 expects the store to hold for message m
ExpectedStored(m) ==
    IF /\ m.error # None
       /\ m.error[1].t = "obj"
       /\ m.error[1].v.data # None
       /\ m.error[1].v.data[1].t = "str"
    THEN [m EXCEPT !.error[1].v.data[1].v = ExpectedData[m.error[1].v.data[1].v]]
    ELSE m

\* the messages the store holds, as request or response half of an exchange
StoredMessages ==
    {exchanges[i].request[1] : i \in {j \in 1..Len(exchanges) : exchanges[j].request # None}}
    \cup {exchanges[i].response[1] :
             i \in {j \in 1..Len(exchanges) : exchanges[j].response # None}}

\* C28: for every message applied with add_message whose error.data is a
\* string, the stored error.data is the input with every non-ASCII character
\* and every control character other than newline and tab removed, cut to at
\* most 500 characters; no other field of the message is changed, and a
\* message without such data is stored as it came.
C28_SanitizedData ==
    /\ StoredMessages = {ExpectedStored(applied[i]) : i \in 1..Len(applied)}
    /\ Cardinality(StoredMessages) = Len(applied)
    /\ ExpectedData[StrDirty] = <<65, 10>>
    /\ LET long == ExpectedData[StrLong]
       IN Len(long) = 500 /\ \A k \in 1..500 : long[k] \in {9, 10, 97, 98, 99}

\* the case of C28: the store holds the long error text cut to 500 clean
\* characters, the short one cleaned to "A" and a newline, and an error whose
\* data is a number as it came
C28_Witness ==
    /\ \E m \in StoredMessages :
          /\ m.error # None /\ m.error[1].v.data # None
          /\ m.error[1].v.data[1].t = "str" /\ Len(m.error[1].v.data[1].v) = 500
    /\ \E m \in StoredMessages :
          /\ m.error # None /\ m.error[1].v.data # None
          /\ m.error[1].v.data[1] = [t |-> "str", v |-> <<65, 10>>]
    /\ \E m \in StoredMessages :
          /\ m.error # None /\ m.error[1].v.data = <<[t |-> "num", v |-> 1]>>

(***************************************************************************)
(* C29: check_for_new_messages                                             *)
(***************************************************************************)
\* add_message applied to ms[k], ms[k+1], .. in that order
RECURSIVE InSendOrder(_, _, _)
InSendOrder(ex, ms, k) ==
    IF k > Len(ms) THEN ex ELSE InSendOrder(add_message(ex, ms[k]), ms, k + 1)

\* the step of the loop's head, recognised by the controller's position
TickStep == ctl = "tick" /\ ctl' = "input"

\* C29: check_for_new_messages never blocks (the loop's head can always be
\* taken, whatever the channel holds), empties the message channel of
\* everything queued at the call, and applies those messages with
\* add_message in the order they were sent; with an empty channel, and
\* with no receiver, it leaves the store unchanged.
C29_DrainInSendOrder ==
    [][/\ (ctl = "tick" => ENABLED Tick)
       /\ check_for_new_messages(exchanges, <<>>) = exchanges
       /\ TickStep =>
            /\ msgChan' = <<>>
            /\ applied' = applied \o msgChan
            /\ exchanges' = InSendOrder(exchanges, msgChan, 1)
            /\ (msgChan = <<>> => exchanges' = exchanges)]_vars

\* an earlier call has filled the store, and the next call finds two or
\* more messages queued
C29_Witness ==
    /\ ctl = "tick"
    /\ applied # <<>>
    /\ exchanges # <<>>
    /\ Len(msgChan) >= 2

(***************************************************************************)
(* C30: select_next and select_previous                                    *)
(***************************************************************************)
ValidSelection == selected_exchange < Len(exchanges)

\* C30: with a non-empty exchange list select_next moves selected_exchange
\* to (selected + 1) modulo the list length and select_previous moves it to
\* selected - 1, wrapping from 0 to length - 1; with an empty list both
\* leave the selection unchanged; from a valid index the selection stays a
\* valid index, whatever is called.
C30_SelectionWraps ==
    [][/\ BrowseDown =>
            selected_exchange' = (IF exchanges = <<>> THEN selected_exchange
                                  ELSE (selected_exchange + 1) % Len(exchanges))
       /\ BrowseUp =>
            selected_exchange' = (IF exchanges = <<>> THEN selected_exchange
                                  ELSE IF selected_exchange = 0 THEN Len(exchanges) - 1
                                  ELSE selected_exchange - 1)
       /\ (BrowseDown \/ BrowseUp) =>
            /\ exchanges' = exchanges
            /\ (exchanges = <<>> => selected_exchange' = selected_exchange)
       /\ ValidSelection => ValidSelection']_vars

\* the last of three exchanges selected: the selection has moved there by
\* two steps forward or by one step back from the first
C30_Witness ==
    /\ Len(exchanges) = 3
    /\ selected_exchange = 2

(***************************************************************************)
(* C31: the filter input                                                   *)
(***************************************************************************)
\* C31: start_filtering_requests enters FilteringRequests with an empty
\* input buffer; apply_filter sets filter_text to the buffer (an empty
\* buffer clears the filter), returns to Normal input mode and empties the
\* buffer; cancel_filtering returns to Normal and empties the buffer while
\* keeping the previous filter_text; none of them changes the exchange list.
C31_FilterInput ==
    [][/\ FilterStart => input_mode' = "FilteringRequests" /\ input_buffer' = <<>>
       /\ FilterApply =>
            /\ filter_text' = input_buffer
            /\ (input_buffer = <<>> => filter_text' = <<>>)
            /\ input_mode' = "Normal"
            /\ input_buffer' = <<>>
       /\ FilterCancel =>
            /\ input_mode' = "Normal"
            /\ input_buffer' = <<>>
            /\ filter_text' = filter_text
       /\ (FilterStart \/ FilterApply \/ FilterCancel) => exchanges' = exchanges]_vars

\* a filter of two characters was applied over a list of one exchange, and
\* the operator is typing the next one
C31_Witness ==
    /\ Len(exchanges) = 1
    /\ Len(filter_text) = 2
    /\ input_mode = "FilteringRequests"
    /\ input_buffer # <<>>
    /\ input_buffer # filter_text

(***************************************************************************)
(* C32: allow with an edited body                                          *)
(***************************************************************************)
\* handler h was allowed with a body the operator had edited
AllowedEdited(h) == hs[h].outcome = "Allow" /\ IsSome(DecisionOf(h).json)

\* the echo of the target to handler h has been applied to the store
EchoStored(h) ==
    \E i \in 1..Len(applied) :
        /\ applied[i].src = h
        /\ applied[i].direction = "Response"
        /\ IsSome(applied[i].result)

\* one exchange holds the request of handler h and the response sent for it
PairedWithOwn(h) ==
    \E k \in 1..Len(exchanges) :
        /\ exchanges[k].request = hs[h].request_message
        /\ IsSome(exchanges[k].response)
        /\ exchanges[k].response[1].src = h

\* the request of handler h carries an id, the edit has kept it, and no
\* message of another request applied to the store carries that id
OwnIdKept(h) ==
    /\ IsSome(hs[h].body.id)
    /\ Unwrap(DecisionOf(h).json).id = hs[h].body.id
    /\ \A i \in 1..Len(applied) : applied[i].src # h => applied[i].id # hs[h].body.id

\* C32 as stated: in Paused mode, when the operator applies an edited body to
\* an intercepted request and allows it, the target receives the edited body
\* rather than the original, and the response of a target that echoes the id
\* it received is stored as the response half of the exchange created by
\* the intercepted request.
C32_Original ==
    \A h \in Handlers :
        AllowedEdited(h)
        => /\ upstream[h] = <<UpstreamCall(upstream[h][1].headers, Unwrap(DecisionOf(h).json))>>
           /\ Unwrap(DecisionOf(h).json) # hs[h].body
           /\ EchoStored(h) => PairedWithOwn(h)

\* C32, amended: the target receives the edited body rather than the
\* original; the echoed response is stored as the response half of the
\* exchange created by the intercepted request when the request carries an
\* id, the edit keeps that id and no message of another request in the
\* store carries it.
C32_EditedBodyForwarded ==
    \A h \in Handlers :
        AllowedEdited(h)
        => /\ upstream[h] = <<UpstreamCall(upstream[h][1].headers, Unwrap(DecisionOf(h).json))>>
           /\ Unwrap(DecisionOf(h).json) # hs[h].body
           /\ (EchoStored(h) /\ OwnIdKept(h)) => PairedWithOwn(h)

\* a request with id 1 was allowed with its params rewritten, and the echo
\* of the target stands in the exchange the request created
C32_Witness ==
    \E h \in Handlers :
        /\ AllowedEdited(h)
        /\ OwnIdKept(h)
        /\ Unwrap(DecisionOf(h).json).params # hs[h].body.params
        /\ EchoStored(h)
        /\ PairedWithOwn(h)

(***************************************************************************)
(* C33: the exchange sequence is append-only and stable                    *)
(***************************************************************************)
\* exchange k of the store before the step is exchange k after it, but for a
\* response filled in where there was none
Kept(k) ==
    /\ exchanges'[k].id = exchanges[k].id
    /\ exchanges'[k].method = exchanges[k].method
    /\ exchanges'[k].request = exchanges[k].request
    /\ exchanges'[k].timestamp = exchanges[k].timestamp
    /\ IsSome(exchanges[k].response) => exchanges'[k].response = exchanges[k].response

\* C33: the exchange sequence is append-only and stable: no operation removes
\* or reorders exchanges, the id, method, request and timestamp of an
\* exchange never change after its creation, a response once set is never
\* replaced by a later message, and toggling the proxy on or off leaves the
\* exchanges untouched.
C33_ExchangesAppendOnly ==
    [][/\ Len(exchanges') >= Len(exchanges)
       /\ \A k \in 1..Len(exchanges) : Kept(k)
       /\ ToggleProxy => exchanges' = exchanges /\ is_running' # is_running]_vars

\* the proxy is switched off over a store that holds a fulfilled exchange,
\* an exchange that waits for its response and a later message
C33_Witness ==
    /\ ~is_running
    /\ Len(exchanges) >= 2
    /\ Len(applied) > Len(exchanges)
    /\ \E k \in 1..Len(exchanges) : IsSome(exchanges[k].request) /\ IsSome(exchanges[k].response)
    /\ \E k \in 1..Len(exchanges) : IsNone(exchanges[k].response)

(***************************************************************************)
(* C34: only POST / reaches the handler                                    *)
(***************************************************************************)
IsPostRoot(req) == req.method = "POST" /\ req.path = <<>>

\* nothing in the channels, the pending queue, the store or the history of
\* the target stems from handler slot h
NoTraceOf(h) ==
    /\ \A i \in 1..Len(Emitted) : Emitted[i].src # h
    /\ EntriesOf(h) = {}
    /\ upstream[h] = <<>>
    /\ sink[h].state = "none"
    /\ hs[h].request_message = None

Settled == msgChan = <<>> /\ \A h \in Handlers : hs[h].pc \in {"new", "done"}

\* the requests received carry pairwise distinct ids
DistinctIds ==
    \A h, g \in Handlers :
        (h # g /\ hs[h].pc # "new" /\ hs[g].pc # "new") => hs[h].body.id # hs[g].body.id

\* the target answered the request of handler h with the echo of its id
Echoed(h) ==
    /\ hs[h].pc = "done"
    /\ hs[h].reply = Some(ForwardReply(hs[h].body, EchoResponse(hs[h].body)))

\* C35: in Normal mode with a target that echoes the id of each request, if
\* the requests in flight carry pairwise distinct ids then, for every
\* interleaving of the handlers and the controller ticks, once all messages
\* are drained each request has exactly one exchange, which holds its own
\* request and the response produced for it and has the request's method;
\* the response stands in no other exchange.
C35_DistinctIdsPair ==
    (Settled /\ DistinctIds)
    => \A h \in Handlers :
         Echoed(h)
         => LET own == {k \in 1..Len(exchanges) :
                          exchanges[k].request = hs[h].request_message}
                answer == ForwardMessage(hs[h].body, EchoResponse(hs[h].body), Now(h, 2), h)
            IN /\ Cardinality(own) = 1
               /\ \A k \in own :
                     /\ exchanges[k].response = Some(answer)
                     /\ exchanges[k].method = Some(Unwrap(hs[h].body.method).v)
                     /\ exchanges[k].id = hs[h].body.id
               /\ \A k \in 1..Len(exchanges) :
                     exchanges[k].response = Some(answer) => k \in own

\* two calls with ids 1 and 2 and different methods were answered, the
\* answer to the second reaching the store before the answer to the first
C35_Witness ==
    /\ Settled /\ DistinctIds
    /\ \A h \in Handlers : Echoed(h)
    /\ hs[1].body.method # hs[2].body.method
    /\ Len(applied) = 4
    /\ applied[1].src = 1 /\ applied[2].src = 2
    /\ applied[3].src = 2 /\ applied[4].src = 1

(***************************************************************************)
(* C36: the server task handles                                            *)
(***************************************************************************)
\* the server tasks that were neither aborted nor have finished
Live == {t \in 1..Len(tasks) : tasks[t] = "running"}

\* C36: in the controller loop at most one server task that was not aborted
\* is held, and no task but the one held is alive; a fresh server task is
\* spawned only after the previous one was aborted (target change while
\* running, stop then start) or found finished; whenever is_running is
\* false no server task handle is held.
C36_OneServerTask ==
    /\ [](/\ \A t \in Live : proxy_server = Some(t)
          /\ IsSome(proxy_server) => tasks[Unwrap(proxy_server)] # "aborted"
          /\ ~is_running => proxy_server = None)
    /\ [][Len(tasks') > Len(tasks)
          => /\ Len(tasks') = Len(tasks) + 1
             /\ proxy_server' = Some(Len(tasks'))
             /\ \A t \in 1..Len(tasks) : tasks'[t] \in {"aborted", "finished"}
             /\ IsSome(proxy_server) <=> is_running]_vars

\* the first task was aborted for a new target, the second ended by itself
\* and was found finished, the third runs
C36_Witness ==
    /\ tasks = <<"aborted", "finished", "running">>
    /\ proxy_server = Some(3)
    /\ is_running
    /\ target_url # <<>>

(***************************************************************************)
(* C37: from App::new(), under requests arriving in the pending queue and  *)
(* the operator's keys (select_next_pending, select_previous_pending,      *)
(* allow_selected_request, block_selected_request,                         *)
(* complete_selected_request, resume_all_requests, toggle_pause_mode, the  *)
(* editors of the selected entry), selected_pending is 0 or an index into  *)
(* the pending queue in every state.                                       *)
(***************************************************************************)
C37_SelectedPendingInRange ==
    selected_pending = 0 \/ selected_pending < Len(pending_requests)

\* the operator moved the selection to the last entry of the queue
C37_Witness ==
    /\ Len(pending_requests) > 1
    /\ selected_pending = Len(pending_requests) - 1
    /\ app_mode = "Paused"

(***************************************************************************)
(* C38: after the timeout reply the PendingRequest can still sit in the    *)
(* pending queue. A later allow, block, complete or resume-all on that     *)
(* stale entry removes it and has no other effect on the request: the      *)
(* target is not called, no message goes to the store, the client gets no  *)
(* second reply.                                                           *)
(***************************************************************************)
TimedOut(h) == hs[h].outcome = "timeout"

\* the messages handler h sent that the controller has applied or will apply
EmittedBy(h) == SelectSeq(Emitted, LAMBDA m : m.src = h)

\* the controller sends handler h a decision
DecisionSentTo(h) == Len(dispatched'[h]) > Len(dispatched[h])

C38_StaleEntryInert ==
    [][\A h \in Handlers :
          TimedOut(h)
          => /\ hs'[h] = hs[h]
             /\ hs[h].reply = Some(TimeoutReply(hs[h].body))
             /\ upstream[h] = <<>> /\ upstream'[h] = <<>>
             /\ sink'[h] = sink[h]
             /\ Len(EmittedBy(h))' <= 1 /\ ~EmittedResponse(h)'
             /\ DecisionSentTo(h)
                => /\ KeyAllow \/ KeyBlock \/ KeyComplete \/ KeyResume
                   /\ h \in Owners(pending_requests)
                   /\ h \notin Owners(pending_requests')]_vars

\* a request was answered by the timeout path, and then the operator's
\* decision on its entry took the entry out of the queue
C38_Witness ==
    \E h \in Handlers :
        /\ TimedOut(h)
        /\ dispatched[h] # <<>>
        /\ h \notin Owners(pending_requests) \cup Owners(pendChan)
        /\ hs[h].reply = Some(TimeoutReply(hs[h].body))
        /\ ctl # "exited"

(***************************************************************************)
(* C39: toggle_pause_mode maps Normal to Paused and both Paused and        *)
(* Intercepting to Normal, and changes nothing else: no decision is        *)
(* dispatched, the pending queue and selected_pending stay as they are,    *)
(* and the entries stay pending (their handlers leave the wait only on a   *)
(* decision or on the timeout). No operation of the controller ever sets   *)
(* app_mode to Intercepting.                                               *)
(***************************************************************************)
C39_TogglePauseMode ==
    /\ [][KeyPause
          => /\ app_mode = "Normal" => app_mode' = "Paused"
             /\ app_mode \in {"Paused", "Intercepting"} => app_mode' = "Normal"
             /\ UNCHANGED <<pending_requests, selected_pending, pendChan, sink,
                            dispatched, hs, upstream, msgChan, exchanges,
                            shared_mode>>]_vars
    /\ [][\A h \in 1..MaxQueue :
            hs[h].pc = "wait" /\ hs'[h].pc # "wait"
            => sink[h].state = "sent" \/ hs'[h].outcome = "timeout"]_vars
    /\ [][app_mode' = "Intercepting" => app_mode = "Intercepting"]_vars

\* the App was toggled to Normal, the loop mirrored that mode, and the App was
\* toggled to Paused again: its entries are pending as before, the second of
\* them selected
C39_Witness ==
    /\ app_mode = "Paused"
    /\ shared_mode = "Normal"
    /\ Len(pending_requests) = MaxQueue
    /\ selected_pending = 1
    /\ \A h \in 1..MaxQueue : hs[h].pc = "wait" /\ dispatched[h] = <<>>

(***************************************************************************)
(* C40: every request handle_proxy_request handles emits exactly one       *)
(* Request message and at most one Response message, and its client gets   *)
(* exactly one reply. No Response message is emitted exactly when the       *)
(* outcome is Block or the timeout path (timer, or the decision channel     *)
(* failing). Once run_app has returned the receiver is gone and a send is   *)
(* refused, so the counts of what was emitted are exact up to that point    *)
(* and upper bounds after it.                                               *)
(***************************************************************************)
\* the Request messages of handler h that were sent and are still observable
RequestsOf(h) ==
    {i \in 1..Len(Emitted) : Emitted[i].direction = "Request" /\ Emitted[i].src = h}

NoResponseOutcome(h) == hs[h].outcome \in {"Block", "timeout"}

C40_OneRequestOneReply ==
    /\ [](\A h \in Handlers :
            /\ Cardinality(RequestsOf(h)) <= 1
            /\ Cardinality(ResponsesOf(h)) <= 1
            /\ IsSome(hs[h].reply) <=> hs[h].pc = "done"
            /\ Cardinality(ResponsesOf(h)) = 1 => hs[h].pc = "done" /\ ~NoResponseOutcome(h)
            /\ ~Exited
               => /\ Cardinality(RequestsOf(h)) = (IF hs[h].pc = "new" THEN 0 ELSE 1)
                  /\ hs[h].pc = "done" => (Cardinality(ResponsesOf(h)) = 0 <=> NoResponseOutcome(h)))
    /\ [][\A h \in Handlers : IsSome(hs[h].reply) => hs'[h] = hs[h]]_vars

\* one request was blocked and answered without a Response message, the
\* other was answered by the target and has its Response message
C40_Witness ==
    /\ ~Exited
    /\ \E h, g \in Handlers :
         /\ hs[h].outcome = "Block" /\ IsSome(hs[h].reply)
         /\ Cardinality(RequestsOf(h)) = 1 /\ Cardinality(ResponsesOf(h)) = 0
         /\ hs[g].outcome \in {"pass", "Allow"} /\ IsSome(hs[g].reply)
         /\ Cardinality(RequestsOf(g)) = 1 /\ Cardinality(ResponsesOf(g)) = 1

====
